---- MODULE Spec2Model ----
(***************************************************************************)
(* Model of the per-guild state synchronization core of the topics bot:   *)
(* bot/services/topics.py (lock table, locked_state, load_state,          *)
(* save_state, normalization, slot policy, topic mutations), the board    *)
(* and topic documents of bot/models.py, the store of bot/storage.py and  *)
(* the locked sessions of the commands in bot/commands.py.                *)
(*                                                                         *)
(* Identifiers (guild, channel, message, topic, user ids, emojis) are     *)
(* naturals; the empty string of the code is NoId.  An Optional value is  *)
(* a sequence of length 0 (None) or 1.                                     *)
(*                                                                         *)
(* bot/commands.py calls locked_state and load_state with the guild id    *)
(* only, while bot/services/topics.py takes (guild_id, channel_id); the   *)
(* model passes the channel of the interaction, as bot/main.py does.      *)
(* load_state passes channel_id to GuildEntry.from_raw, which takes the    *)
(* raw document only; the model applies from_raw to the document.          *)
(*                                                                         *)
(* Spec, SpecQueue, SpecFair and SpecOne cover the locked sessions in      *)
(* which /init, /addtopic and /removetopic change the board               *)
(* (bot/commands.py 407-411, 543-584, 753-776).  SpecBoards adds the       *)
(* session of /removeboards (636-675) and the load_state/save_state pair   *)
(* TopicBot.on_message runs outside the lock (bot/main.py 40-43).  The     *)
(* sessions that follow in the same handlers are part of SpecRendering     *)
(* (render_topics_message, 152-184) and of SpecNotifying (the notification *)
(* of /addtopic, 586-601) only.                                            *)
(*                                                                         *)
(* SpecPure applies the functions of bot/services/topics.py,               *)
(* bot/rendering.py and the reaction loops of render_topics_message to one *)
(* state at a time, topic_autocomplete (703-732) included; SpecOne runs     *)
(* commands one after the other on a board fresh from /init.               *)
(***************************************************************************)
EXTENDS Naturals, Sequences, FiniteSets, TLC

\* ------------------------------------------------------------------ bounds
\* Number of concurrently running command tasks.
NumTasks == 2
\* Number of faults (a failing store or chat call, a cancelled task) in one run.
MaxFaults == 1
\* Longest topic list the operations of bot/services/topics.py are applied to
\* one at a time.
MaxTopics == 3
\* Number of commands one user issues one after the other, and how many of
\* them may be removals.
MaxCommands == 13
MaxRemovals == 1

\* ------------------------------------------------------- program constants
MAX_TOPICS_PER_MESSAGE == 10

\* --------------------------------------------------------------- universes
Tasks == 1..NumTasks
Guilds == {1, 2}
Channels == {1, 2}
Keys == Guilds \X Channels
Users == {1, 2}
\* Users holding the manage-guild permission.
Managers == {1}
Emojis == {1, 2, 3}
NoId == 0

None == <<>>
Some(x) == <<x>>
IsSome(o) == Len(o) = 1
Get(o) == o[1]

\* ------------------------------------------------------------ bot/models.py
MessageEntry(message_id, count) == [message_id |-> message_id, count |-> count]

Topic(id, emoji, text, author_id, author_name, message_id) ==
  [id |-> id, emoji |-> emoji, text |-> text, author_id |-> author_id,
   author_name |-> author_name, message_id |-> message_id]

\* Topic.to_dict: the stored topic document.
TopicToDict(topic) ==
  [id |-> topic.id, emoji |-> topic.emoji, text |-> topic.text,
   authorId |-> topic.author_id, authorName |-> topic.author_name,
   message_id |-> topic.message_id]

\* Topic.from_dict
TopicFromDict(data) ==
  Topic(data.id, data.emoji, data.text, data.authorId, data.authorName,
        data.message_id)

\* GuildEntry.to_dict plus the guild_id added by save_state: the stored board
\* document.  The legacy fields message_id and userlist_message_id are absent
\* (NoId) in every document the bot writes.
ToDict(entry) ==
  [channel_id |-> entry.channel_id,
   welcome_message_id |-> entry.welcome_message_id,
   board_header_message_id |-> entry.board_header_message_id,
   contributors_message_id |-> entry.contributors_message_id,
   userlist_message_id |-> NoId,
   notification_message_id |-> entry.notification_message_id,
   message_id |-> NoId,
   messages |-> entry.messages]

\* MessageEntry.from_dict over the stored list: entries without an id are
\* dropped.
RECURSIVE MessagesFromRaw(_)
MessagesFromRaw(raws) ==
  IF raws = <<>> THEN <<>>
  ELSE IF Head(raws).message_id = NoId THEN MessagesFromRaw(Tail(raws))
       ELSE <<MessageEntry(Head(raws).message_id, Head(raws).count)>>
              \o MessagesFromRaw(Tail(raws))

\* GuildEntry.from_raw on an Optional stored document.
from_raw(raw) ==
  IF ~IsSome(raw) THEN None
  ELSE LET d == Get(raw)
           legacy == d.messages = <<>>
           messages ==
             IF legacy
             THEN IF d.message_id # NoId
                  THEN <<MessageEntry(d.message_id, 0)>> ELSE <<>>
             ELSE MessagesFromRaw(d.messages)
           contributors ==
             IF d.contributors_message_id # NoId THEN d.contributors_message_id
             ELSE d.userlist_message_id
           dirty ==
             \/ legacy /\ d.message_id # NoId
             \/ d.userlist_message_id # NoId /\ d.contributors_message_id = NoId
       IN Some([channel_id |-> d.channel_id,
                welcome_message_id |-> d.welcome_message_id,
                board_header_message_id |-> d.board_header_message_id,
                contributors_message_id |-> contributors,
                notification_message_id |-> d.notification_message_id,
                messages |-> messages,
                registry_dirty |-> dirty])

GuildTopicState(guild_id, channel_id, entry, topics, registry_dirty, topics_dirty) ==
  [guild_id |-> guild_id, channel_id |-> channel_id, entry |-> entry,
   topics |-> topics, registry_dirty |-> registry_dirty,
   topics_dirty |-> topics_dirty]

\* ---------------------------------------------------- bot/services/topics.py
SlotIds(messages) == {messages[i].message_id : i \in 1..Len(messages)}

\* Number of topics of the list assigned to slot id m.
CountFor(topics, m) ==
  Cardinality({i \in 1..Len(topics) : topics[i].message_id = m})

Orphan(topic, messages) ==
  topic.message_id = NoId \/ topic.message_id \notin SlotIds(messages)

\* normalize_entry_and_topics starting from registry_changed = False instead of
\* the dirty marker of the entry.
normalize_marker_dropped(entry, topics) ==
  IF ~IsSome(entry) THEN <<None, topics, FALSE, FALSE>>
  ELSE LET e == Get(entry) IN
       IF e.messages = <<>> THEN <<entry, topics, FALSE, FALSE>>
       ELSE LET fixed == [i \in 1..Len(topics) |->
                            IF Orphan(topics[i], e.messages)
                            THEN [topics[i] EXCEPT !.message_id = e.messages[1].message_id]
                            ELSE topics[i]]
                messages == [i \in 1..Len(e.messages) |->
                               [e.messages[i] EXCEPT
                                  !.count = CountFor(fixed, e.messages[i].message_id)]]
            IN <<Some([e EXCEPT !.messages = messages]), fixed,
                 messages # e.messages, fixed # topics>>

\* normalize_entry_and_topics moving every topic to the first slot.
normalize_all_to_first(entry, topics) ==
  IF ~IsSome(entry) THEN <<None, topics, FALSE, FALSE>>
  ELSE LET e == Get(entry) IN
       IF e.messages = <<>> THEN <<entry, topics, e.registry_dirty, FALSE>>
       ELSE LET fixed == [i \in 1..Len(topics) |->
                            [topics[i] EXCEPT !.message_id = e.messages[1].message_id]]
                messages == [i \in 1..Len(e.messages) |->
                               [e.messages[i] EXCEPT
                                  !.count = CountFor(fixed, e.messages[i].message_id)]]
            IN <<Some([e EXCEPT !.messages = messages]), fixed,
                 e.registry_dirty \/ messages # e.messages, fixed # topics>>

\* normalize_entry_and_topics giving the orphans to the last slot.
normalize_to_last_slot(entry, topics) ==
  IF ~IsSome(entry) THEN <<None, topics, FALSE, FALSE>>
  ELSE LET e == Get(entry) IN
       IF e.messages = <<>> THEN <<entry, topics, e.registry_dirty, FALSE>>
       ELSE LET fixed == [i \in 1..Len(topics) |->
                            IF Orphan(topics[i], e.messages)
                            THEN [topics[i] EXCEPT
                                    !.message_id = e.messages[Len(e.messages)].message_id]
                            ELSE topics[i]]
                messages == [i \in 1..Len(e.messages) |->
                               [e.messages[i] EXCEPT
                                  !.count = CountFor(fixed, e.messages[i].message_id)]]
            IN <<Some([e EXCEPT !.messages = messages]), fixed,
                 e.registry_dirty \/ messages # e.messages, fixed # topics>>

\* normalize_entry_and_topics counting the topics before it reassigns the
\* orphans instead of after.
normalize_counting_first(entry, topics) ==
  IF ~IsSome(entry) THEN <<None, topics, FALSE, FALSE>>
  ELSE LET e == Get(entry) IN
       IF e.messages = <<>> THEN <<entry, topics, e.registry_dirty, FALSE>>
       ELSE LET fixed == [i \in 1..Len(topics) |->
                            IF Orphan(topics[i], e.messages)
                            THEN [topics[i] EXCEPT !.message_id = e.messages[1].message_id]
                            ELSE topics[i]]
                messages == [i \in 1..Len(e.messages) |->
                               [e.messages[i] EXCEPT
                                  !.count = CountFor(topics, e.messages[i].message_id)]]
            IN <<Some([e EXCEPT !.messages = messages]), fixed,
                 e.registry_dirty \/ messages # e.messages, fixed # topics>>

\* normalize_entry_and_topics: <<entry, topics, registry_changed, topics_changed>>
normalize_entry_and_topics(entry, topics) ==
  IF ~IsSome(entry) THEN <<None, topics, FALSE, FALSE>>
  ELSE LET e == Get(entry) IN
       IF e.messages = <<>> THEN <<entry, topics, e.registry_dirty, FALSE>>
       ELSE LET primary_id == e.messages[1].message_id
                fixed == [i \in 1..Len(topics) |->
                            IF Orphan(topics[i], e.messages)
                            THEN [topics[i] EXCEPT !.message_id = primary_id]
                            ELSE topics[i]]
                messages == [i \in 1..Len(e.messages) |->
                               [e.messages[i] EXCEPT
                                  !.count = CountFor(fixed, e.messages[i].message_id)]]
                topics_changed ==
                  \E i \in 1..Len(topics) : Orphan(topics[i], e.messages)
                registry_changed ==
                  \/ e.registry_dirty
                  \/ \E i \in 1..Len(e.messages) :
                        e.messages[i].count # messages[i].count
            IN <<Some([e EXCEPT !.messages = messages]), fixed,
                 registry_changed, topics_changed>>

\* find_first_available_message returning the newest slot with room.
find_last_available_message(entry) ==
  LET free == {i \in 1..Len(entry.messages) :
                 entry.messages[i].count < MAX_TOPICS_PER_MESSAGE}
  IN IF free = {} THEN 0
     ELSE CHOOSE i \in free : \A j \in free : i >= j

\* find_first_available_message taking a slot that holds exactly the capacity
\* for one with room.
find_slot_at_capacity(entry) ==
  LET free == {i \in 1..Len(entry.messages) :
                 entry.messages[i].count <= MAX_TOPICS_PER_MESSAGE}
  IN IF free = {} THEN 0
     ELSE CHOOSE i \in free : \A j \in free : i <= j

\* find_first_available_message: the index of the slot returned, 0 for None.
find_first_available_message(entry) ==
  LET free == {i \in 1..Len(entry.messages) :
                 entry.messages[i].count < MAX_TOPICS_PER_MESSAGE}
  IN IF free = {} THEN 0
     ELSE CHOOSE i \in free : \A j \in free : i <= j

\* register_message counting the topic that is about to be added.
register_message_counted(entry, message_id) ==
  [entry EXCEPT !.messages = Append(@, MessageEntry(message_id, 1)),
                !.registry_dirty = TRUE]

\* register_message putting the new slot in front of the others.
register_message_first(entry, message_id) ==
  [entry EXCEPT !.messages = <<MessageEntry(message_id, 0)>> \o @,
                !.registry_dirty = TRUE]

\* register_message: the entry with the new slot appended.
register_message(entry, message_id) ==
  [entry EXCEPT !.messages = Append(@, MessageEntry(message_id, 0)),
                !.registry_dirty = TRUE]

\* Index of the first slot with the given id, 0 if there is none.
FirstSlotWith(messages, message_id) ==
  LET hit == {i \in 1..Len(messages) : messages[i].message_id = message_id}
  IN IF hit = {} THEN 0 ELSE CHOOSE i \in hit : \A j \in hit : i <= j

\* add_topic_to_state without the count of the target slot.
add_topic_uncounted(state, new_id, emoji, text, author_id, author_name, message_id) ==
  [state EXCEPT
     !.topics = Append(@, Topic(new_id, emoji, text, author_id, author_name, message_id)),
     !.topics_dirty = TRUE]

\* add_topic_to_state; new_id is the value of uuid4().hex.
add_topic_to_state(state, new_id, emoji, text, author_id, author_name, message_id) ==
  LET topic == Topic(new_id, emoji, text, author_id, author_name, message_id)
      appended == [state EXCEPT !.topics = Append(@, topic), !.topics_dirty = TRUE]
      slot == IF IsSome(state.entry)
              THEN FirstSlotWith(Get(state.entry).messages, message_id) ELSE 0
  IN IF slot = 0 THEN appended
     ELSE [appended EXCEPT
             !.entry = Some([Get(state.entry) EXCEPT
                               !.messages[slot].count = @ + 1]),
             !.registry_dirty = TRUE]

\* The topic remove_topic_from_state returns (None when the id is unknown).
FindTopic(topics, topic_id) ==
  LET hit == {i \in 1..Len(topics) : topics[i].id = topic_id}
  IN IF hit = {} THEN None
     ELSE Some(topics[CHOOSE i \in hit : \A j \in hit : i <= j])

\* remove_topic_from_state marking the topics dirty before it looks for the
\* topic.
remove_topic_marking_first(state, topic_id) ==
  LET kept == SelectSeq(state.topics, LAMBDA t : t.id # topic_id)
  IN [state EXCEPT !.topics = kept, !.topics_dirty = TRUE]

\* remove_topic_from_state taking the topic off the count of the first slot
\* instead of the slot the topic is on.
remove_topic_from_first_slot(state, topic_id) ==
  LET found == FindTopic(state.topics, topic_id) IN
  IF ~IsSome(found) THEN state
  ELSE LET kept == SelectSeq(state.topics, LAMBDA t : t.id # topic_id)
           removed == [state EXCEPT !.topics = kept, !.topics_dirty = TRUE]
       IN IF ~IsSome(state.entry) \/ Get(state.entry).messages = <<>> THEN removed
          ELSE [removed EXCEPT
                  !.entry = Some([Get(state.entry) EXCEPT
                                    !.messages[1].count =
                                       IF @ >= 1 THEN @ - 1 ELSE 0]),
                  !.registry_dirty = TRUE]

\* remove_topic_from_state: the state it leaves.
remove_topic_from_state(state, topic_id) ==
  LET found == FindTopic(state.topics, topic_id) IN
  IF ~IsSome(found) THEN state
  ELSE LET target == Get(found)
           kept == SelectSeq(state.topics, LAMBDA t : t.id # topic_id)
           removed == [state EXCEPT !.topics = kept, !.topics_dirty = TRUE]
           slot == IF IsSome(state.entry)
                   THEN FirstSlotWith(Get(state.entry).messages, target.message_id)
                   ELSE 0
       IN IF slot = 0 THEN removed
          ELSE [removed EXCEPT
                  !.entry = Some([Get(state.entry) EXCEPT
                                    !.messages[slot].count =
                                       IF @ >= 1 THEN @ - 1 ELSE 0]),
                  !.registry_dirty = TRUE]

\* has_emoji finding no emoji.
has_emoji_never(state, emoji) == FALSE

has_emoji(state, emoji) ==
  \E i \in 1..Len(state.topics) : state.topics[i].emoji = emoji

create_entry(channel_id, welcome_message_id, board_header_message_id, contributors_message_id, topics_message_id, notification_message_id) ==
  [channel_id |-> channel_id,
   welcome_message_id |-> welcome_message_id,
   board_header_message_id |-> board_header_message_id,
   contributors_message_id |-> contributors_message_id,
   notification_message_id |-> notification_message_id,
   messages |-> <<MessageEntry(topics_message_id, 0)>>,
   registry_dirty |-> TRUE]


\* --------------------------------------------------------- bot/rendering.py
TOPICS_EMPTY_MESSAGE == "No topics yet. Add one with /addtopic."

\* format_topic_entry: TOPIC_ENTRY_TEMPLATE filled with the emoji and the text.
format_topic_entry(topic) == <<"> - ", topic.emoji, " - **", topic.text, "**">>

\* build_topics_payload rendering every topic whatever slot is asked for.
build_payload_unfiltered(topics, target_message_id) ==
  [content |-> IF topics # <<>>
               THEN [i \in 1..Len(topics) |-> format_topic_entry(topics[i])]
               ELSE TOPICS_EMPTY_MESSAGE,
   emojis |-> [i \in 1..Len(topics) |-> topics[i].emoji]]

\* build_topics_payload; target_message_id is an Optional slot id, and the
\* content is the sequence of the lines that "\n".join puts together.
build_topics_payload(topics, target_message_id) ==
  LET relevant_topics ==
        IF IsSome(target_message_id)
        THEN SelectSeq(topics, LAMBDA topic : topic.message_id = Get(target_message_id))
        ELSE topics
      lines == [i \in 1..Len(relevant_topics) |-> format_topic_entry(relevant_topics[i])]
      emojis == [i \in 1..Len(relevant_topics) |-> relevant_topics[i].emoji]
  IN [content |-> IF lines # <<>> THEN lines ELSE TOPICS_EMPTY_MESSAGE,
      emojis |-> emojis]

\* -------------------------------------------------------------------- state
VARIABLES
  boards,     \* storage.guild_boards: Keys -> Optional board document
  topicsDb,   \* storage.topics_collection: Keys -> sequence of topic documents
  locks,      \* _guild_locks: Guilds -> Optional asyncio.Lock
  pc,         \* position of each command task
  cmd,        \* the command each task runs
  st,         \* the GuildTopicState of each task's session
  nextMsg,    \* next message id the chat client hands out
  nextTopic,  \* next value of uuid4().hex
  hist,       \* per task: what its session did (observation only)
  log         \* order of lock use, store at exits, faults (observation only);
              \* shown: the content the chat shows for each rendered slot message

vars == <<boards, topicsDb, locks, pc, cmd, st, nextMsg, nextTopic, hist, log>>

\* Records keyed by the channel alone: every guild uses the records of guild 1.
key_of_channel(t) == <<1, cmd[t].channel>>

\* The key of the records load_state and save_state use for task t.
KeyOf(t) == <<cmd[t].guild, cmd[t].channel>>

NoState == GuildTopicState(NoId, NoId, None, <<>>, FALSE, FALSE)

NoCmd ==
  [kind |-> "none", guild |-> NoId, channel |-> NoId, user |-> NoId,
   emoji |-> NoId, topic |-> NoId, entry |-> None, cleanup |-> "none",
   target |-> NoId, note |-> NoId, deleted |-> {}]

NoHist ==
  [result |-> "none", error |-> "none", flushes |-> 0, board_writes |-> 0,
   topics_writes |-> 0, uow_done |-> FALSE, loaded |-> NoState, ticket |-> 0,
   waited |-> FALSE, flush_registry |-> FALSE, flush_topics |-> FALSE]

\* asyncio.Lock: the locked flag and the FIFO queue of waiting tasks.
NewLock == [locked |-> FALSE, waiters |-> <<>>]

\* _get_lock creating a lock on every call.
get_lock_uncached(table, guild_id) ==
  [table EXCEPT ![guild_id] = Some(NewLock)]

\* _get_lock: the lock table after the call (an entry is created on first use).
_get_lock(table, guild_id) ==
  IF IsSome(table[guild_id]) THEN table
  ELSE [table EXCEPT ![guild_id] = Some(NewLock)]

\* A release that drops the lock from the table when nobody waits for it.
released_and_dropped(table, guild_id) ==
  IF Get(table[guild_id]).waiters = <<>>
  THEN [table EXCEPT ![guild_id] = None]
  ELSE [table EXCEPT ![guild_id] = Some([Get(@) EXCEPT !.locked = FALSE])]

\* asyncio.Lock.release, at the exit of `async with lock`.
Released(table, guild_id) ==
  [table EXCEPT ![guild_id] = Some([Get(@) EXCEPT !.locked = FALSE])]

\* Tasks inside a session of guild g: between lock acquisition and release.
InSession ==
  {"load_board", "load_topics", "uow", "uow_send", "save_board",
   "save_topics_delete", "save_topics_insert"}

Holders(g) == {t \in DOMAIN pc : pc[t] \in InSession /\ cmd[t].guild = g}

\* The part of the store that belongs to guild g.
StoreOf(g) ==
  [c \in Channels |-> [board |-> boards[<<g, c>>], topics |-> topicsDb[<<g, c>>]]]

\* ----------------------------------------------------------- initial stores
\* The store earlier commands leave behind, built with the operations above: a
\* board on key <<1, 1>> after /init and n successful /addtopic commands (the
\* first with emoji `first`, the others with emojis no command of a run uses,
\* the authors alternating), with the notification of the last add recorded.
RECURSIVE AddN(_, _, _)
AddN(state, n, first) ==
  IF n = 0 THEN state
  ELSE LET before == AddN(state, n - 1, first)
           slot == find_first_available_message(Get(before.entry))
       IN add_topic_to_state(before, n, IF n = 1 THEN first ELSE 100 + n, "topic",
                             2 - (n % 2), 2 - (n % 2),
                             Get(before.entry).messages[slot].message_id)

Prefilled(n, first) ==
  LET entry == create_entry(1, 1, NoId, 2, 3, IF n = 0 THEN NoId ELSE 4)
  IN AddN(GuildTopicState(1, 1, Some(entry), <<>>, TRUE, TRUE), n, first)

\* The board runs start from: its only slot is full, its first topic has
\* emoji 1 and belongs to user 1.
InitialStore == Prefilled(MAX_TOPICS_PER_MESSAGE, 1)

InitWith(state) ==
  /\ boards = [k \in Keys |->
                 IF k = <<1, 1>> /\ IsSome(state.entry)
                 THEN Some(ToDict(Get(state.entry))) ELSE None]
  /\ topicsDb = [k \in Keys |->
                   IF k = <<1, 1>>
                   THEN [i \in 1..Len(state.topics) |-> TopicToDict(state.topics[i])]
                   ELSE <<>>]
  /\ nextMsg = IF IsSome(state.entry) THEN 5 ELSE 1
  /\ nextTopic = Len(state.topics) + 1

\* What the chat shows for the slot messages of a board all of whose slots
\* were rendered from its topics: message id -> content.
ShownFor(state) ==
  [m \in SlotIds(Get(state.entry).messages) |->
     build_topics_payload(state.topics, Some(m)).content]

\* The bot after start-up with the given command tasks still to arrive and
\* the given contents of the slot messages in the chat.
InitShowing(tasks, shown) ==
  /\ InitWith(InitialStore)
  /\ locks = [g \in Guilds |-> None]
  /\ pc = [t \in tasks |-> "idle"]
  /\ cmd = [t \in tasks |-> NoCmd]
  /\ st = [t \in tasks |-> NoState]
  /\ hist = [t \in tasks |-> NoHist]
  /\ log = [tickets |-> [g \in Guilds |-> 0],
            left |-> [g \in Guilds |-> StoreOf(g)],
            torn |-> [k \in Keys |-> FALSE],
            faults |-> 0,
            shown |-> shown]

\* The contents of the chat messages are followed in the runs with
\* render_topics_message only.
InitOf(tasks) == InitShowing(tasks, <<>>)

Init == InitOf(Tasks)


\* ------------------------------------------------------- session plumbing
\* A session that keeps the lock when an exception leaves it.
exit_session_lock_kept(t, error) ==
  /\ locks' = locks
  /\ pc' = [pc EXCEPT ![t] = "done"]
  /\ hist' = [hist EXCEPT ![t].error = IF error = "none" THEN @ ELSE error]

\* A session that swallows the exception that leaves it.
exit_session_swallowed(t, error) ==
  /\ locks' = Released(locks, cmd[t].guild)
  /\ pc' = [pc EXCEPT ![t] = "done"]
  /\ hist' = hist

\* Exit of `async with lock` in locked_state: the lock is released and the
\* store guild g is left with is recorded.
ExitSession(t, error) ==
  /\ locks' = Released(locks, cmd[t].guild)
  /\ pc' = [pc EXCEPT ![t] = "done"]
  /\ hist' = [hist EXCEPT ![t].error = IF error = "none" THEN @ ELSE error]

\* locked_state calling save_state after the yield instead of in a finally
\* clause: a unit of work that raised exits without a flush.
end_uow_no_finally(t, s, result, error) ==
  LET flush == error = "none" /\ (s.registry_dirty \/ s.topics_dirty) IN
  /\ st' = [st EXCEPT ![t] = s]
  /\ IF flush
     THEN /\ pc' = [pc EXCEPT ![t] =
                      IF s.registry_dirty THEN "save_board" ELSE "save_topics_delete"]
          /\ locks' = locks
     ELSE /\ pc' = [pc EXCEPT ![t] = "done"]
          /\ locks' = Released(locks, cmd[t].guild)
  /\ hist' = [hist EXCEPT ![t].result = result, ![t].error = error,
                          ![t].uow_done = TRUE,
                          ![t].flushes = IF error = "none" THEN @ + 1 ELSE @,
                          ![t].flush_registry = s.registry_dirty,
                          ![t].flush_topics = s.topics_dirty]
  /\ LET counted == [log EXCEPT !.faults = IF error = "none" THEN @ ELSE @ + 1]
     IN log' = IF flush THEN counted
               ELSE [counted EXCEPT !.left[cmd[t].guild] = StoreOf(cmd[t].guild)]

\* save_state writing the board whether or not registry_dirty is set.
end_uow_saving_always(t, s, result, error) ==
  /\ st' = [st EXCEPT ![t] = s]
  /\ pc' = [pc EXCEPT ![t] = "save_board"]
  /\ locks' = locks
  /\ hist' = [hist EXCEPT ![t].result = result, ![t].error = error,
                          ![t].uow_done = TRUE, ![t].flushes = @ + 1,
                          ![t].flush_registry = s.registry_dirty,
                          ![t].flush_topics = s.topics_dirty]
  /\ log' = [log EXCEPT !.faults = IF error = "none" THEN @ ELSE @ + 1]

\* End of the unit of work of task t with state s: the finally clause of
\* locked_state calls save_state.  save_state awaits only for the parts that are
\* dirty; with nothing dirty the session exits in the same step.  (state is
\* bound to the value of s, so that s is evaluated once.)
EndUow(t, s, result, error) ==
  \E state \in {s} :
  /\ st' = [st EXCEPT ![t] = state]
  /\ IF state.registry_dirty \/ state.topics_dirty
     THEN /\ pc' = [pc EXCEPT ![t] =
                      IF state.registry_dirty THEN "save_board" ELSE "save_topics_delete"]
          /\ locks' = locks
     ELSE /\ pc' = [pc EXCEPT ![t] = "done"]
          /\ locks' = Released(locks, cmd[t].guild)
  /\ hist' = [hist EXCEPT ![t].result = result, ![t].error = error,
                          ![t].uow_done = TRUE, ![t].flushes = @ + 1,
                          ![t].flush_registry = state.registry_dirty,
                          ![t].flush_topics = state.topics_dirty]
  /\ LET counted == [log EXCEPT !.faults = IF error = "none" THEN @ ELSE @ + 1]
     IN log' = IF state.registry_dirty \/ state.topics_dirty THEN counted
               ELSE [counted EXCEPT !.left[cmd[t].guild] = StoreOf(cmd[t].guild),
                                    !.torn[KeyOf(t)] = FALSE]

\* ------------------------------------------------------------ locked_state
\* A lock that a new request takes whenever it is unlocked, passing the tasks
\* that wait for it.
request_barging(t, g) ==
  LET table == _get_lock(locks, g)
      lock == Get(table[g])
  IN /\ IF ~lock.locked
        THEN /\ locks' = [table EXCEPT ![g] = Some([lock EXCEPT !.locked = TRUE])]
             /\ pc' = [pc EXCEPT ![t] = "load_board"]
        ELSE /\ locks' = [table EXCEPT
                            ![g] = Some([lock EXCEPT !.waiters = Append(@, t)])]
             /\ pc' = [pc EXCEPT ![t] = "waiting"]
     /\ hist' = [hist EXCEPT ![t].ticket = log.tickets[g] + 1,
                             ![t].waited = lock.locked]
     /\ log' = [log EXCEPT !.tickets[g] = @ + 1]

\* lock = _get_lock(guild_id); async with lock: asyncio.Lock.acquire takes a
\* free lock nobody waits for, and queues the task otherwise.  The task's
\* place in the order of requests is recorded.
Request(t, g) ==
  LET table == _get_lock(locks, g)
      lock == Get(table[g])
  IN /\ IF ~lock.locked /\ lock.waiters = <<>>
        THEN /\ locks' = [table EXCEPT ![g] = Some([lock EXCEPT !.locked = TRUE])]
             /\ pc' = [pc EXCEPT ![t] = "load_board"]
        ELSE /\ locks' = [table EXCEPT
                            ![g] = Some([lock EXCEPT !.waiters = Append(@, t)])]
             /\ pc' = [pc EXCEPT ![t] = "waiting"]
     /\ hist' = [hist EXCEPT ![t].ticket = log.tickets[g] + 1,
                             ![t].waited = lock.locked \/ lock.waiters # <<>>]
     /\ log' = [log EXCEPT !.tickets[g] = @ + 1]

\* /init reaches its session after its check and its three sends.
Acquire(t) ==
  /\ pc[t] = "acquire"
  /\ Request(t, cmd[t].guild)
  /\ UNCHANGED <<boards, topicsDb, cmd, st, nextMsg, nextTopic>>

\* asyncio.Lock: a released lock goes to the first waiter.
WakeUp(t) ==
  /\ pc[t] = "waiting"
  /\ LET g == cmd[t].guild
         lock == Get(locks[g])
     IN /\ ~lock.locked
        /\ lock.waiters # <<>>
        /\ Head(lock.waiters) = t
        /\ locks' = [locks EXCEPT
                       ![g] = Some([locked |-> TRUE, waiters |-> Tail(lock.waiters)])]
  /\ pc' = [pc EXCEPT ![t] = "load_board"]
  /\ UNCHANGED <<boards, topicsDb, cmd, st, nextMsg, nextTopic, hist, log>>

\* load_state dropping the change flags normalization returned.
loaded_unmarked(t, entry, topics) ==
  LET n == normalize_entry_and_topics(entry, topics)
  IN GuildTopicState(cmd[t].guild, cmd[t].channel, n[1], n[2], FALSE, FALSE)

\* load_state, first await: storage.fetch_board and GuildEntry.from_raw.  With no
\* board the topics are not read and the state is complete.
Loaded(t, entry, topics) ==
  LET n == normalize_entry_and_topics(entry, topics)
  IN GuildTopicState(cmd[t].guild, cmd[t].channel, n[1], n[2], n[3], n[4])

LoadBoard(t) ==
  /\ pc[t] = "load_board"
  /\ LET entry == from_raw(boards[KeyOf(t)])
     IN IF IsSome(entry)
        THEN /\ st' = [st EXCEPT ![t] = [NoState EXCEPT !.entry = entry]]
             /\ pc' = [pc EXCEPT ![t] = "load_topics"]
             /\ hist' = hist
        ELSE /\ st' = [st EXCEPT ![t] = Loaded(t, entry, <<>>)]
             /\ pc' = [pc EXCEPT ![t] = "uow"]
             /\ hist' = [hist EXCEPT ![t].loaded = Loaded(t, entry, <<>>)]
  /\ UNCHANGED <<boards, topicsDb, locks, cmd, nextMsg, nextTopic, log>>

\* load_state, second await: storage.load_topics, then normalization.
LoadTopics(t) ==
  /\ pc[t] = "load_topics"
  /\ LET raw == topicsDb[KeyOf(t)]
         topics == [i \in 1..Len(raw) |-> TopicFromDict(raw[i])]
     IN \E state \in {Loaded(t, st[t].entry, topics)} :
          /\ st' = [st EXCEPT ![t] = state]
          /\ hist' = [hist EXCEPT ![t].loaded = state]
  /\ pc' = [pc EXCEPT ![t] = "uow"]
  /\ UNCHANGED <<boards, topicsDb, locks, cmd, nextMsg, nextTopic, log>>

\* A store read of load_state raises, or the task is cancelled while it awaits
\* one: load_state is outside the try block, so only the lock is released.
LoadAborts(t) ==
  /\ pc[t] \in {"load_board", "load_topics"}
  /\ log.faults < MaxFaults
  /\ ExitSession(t, "load")
  /\ log' = [log EXCEPT !.left[cmd[t].guild] = StoreOf(cmd[t].guild),
                        !.faults = @ + 1]
  /\ UNCHANGED <<boards, topicsDb, cmd, st, nextMsg, nextTopic>>

\* ---------------------------------------------------------------- save_state
\* What save_state does after a write completed: the next dirty part, or the
\* return that ends the session.
AfterWrite(t, s, key_torn) ==
  \E state \in {s} :
  /\ st' = [st EXCEPT ![t] = state]
  /\ IF state.topics_dirty
     THEN /\ pc' = [pc EXCEPT ![t] =
                      IF pc[t] = "save_topics_delete"
                      THEN "save_topics_insert" ELSE "save_topics_delete"]
          /\ locks' = locks
          /\ log' = log
     ELSE /\ pc' = [pc EXCEPT ![t] = "done"]
          /\ locks' = Released(locks, cmd[t].guild)
          /\ log' = [log EXCEPT
                       !.left[cmd[t].guild] =
                          [c \in Channels |->
                             [board |-> boards'[<<cmd[t].guild, c>>],
                              topics |-> topicsDb'[<<cmd[t].guild, c>>]]],
                       !.torn[KeyOf(t)] = key_torn]

\* storage.upsert_board / storage.delete_board, then the flags are cleared.
SaveBoard(t) ==
  /\ pc[t] = "save_board"
  /\ boards' = [boards EXCEPT ![KeyOf(t)] =
                  IF IsSome(st[t].entry)
                  THEN Some(ToDict(Get(st[t].entry))) ELSE None]
  /\ topicsDb' = topicsDb
  /\ AfterWrite(t, [st[t] EXCEPT
                      !.registry_dirty = FALSE,
                      !.entry = IF IsSome(@)
                                THEN Some([Get(@) EXCEPT !.registry_dirty = FALSE])
                                ELSE @],
                FALSE)
  /\ hist' = [hist EXCEPT ![t].board_writes = @ + 1]
  /\ UNCHANGED <<cmd, nextMsg, nextTopic>>

\* storage.save_topics, first await: delete_many.  An empty list is not inserted.
SaveTopicsDelete(t) ==
  /\ pc[t] = "save_topics_delete"
  /\ topicsDb' = [topicsDb EXCEPT ![KeyOf(t)] = <<>>]
  /\ boards' = boards
  /\ AfterWrite(t, [st[t] EXCEPT !.topics_dirty = (st[t].topics # <<>>)], FALSE)
  /\ hist' = [hist EXCEPT ![t].topics_writes = @ + 1]
  /\ UNCHANGED <<cmd, nextMsg, nextTopic>>

\* storage.save_topics, second await: insert_many.
SaveTopicsInsert(t) ==
  /\ pc[t] = "save_topics_insert"
  /\ topicsDb' = [topicsDb EXCEPT ![KeyOf(t)] =
                    [i \in 1..Len(st[t].topics) |-> TopicToDict(st[t].topics[i])]]
  /\ boards' = boards
  /\ AfterWrite(t, [st[t] EXCEPT !.topics_dirty = FALSE], FALSE)
  /\ hist' = hist
  /\ UNCHANGED <<cmd, nextMsg, nextTopic>>

\* A store write of save_state raises, or the task is cancelled while it awaits
\* one: nothing catches it, the write and those after it are not done, the
\* dirty flag of the failed part stays set and the lock is released.
SaveAborts(t) ==
  /\ pc[t] \in {"save_board", "save_topics_delete", "save_topics_insert"}
  /\ log.faults < MaxFaults
  /\ ExitSession(t, "save")
  /\ log' = [log EXCEPT !.left[cmd[t].guild] = StoreOf(cmd[t].guild),
                        !.torn[KeyOf(t)] = TRUE, !.faults = @ + 1]
  /\ UNCHANGED <<boards, topicsDb, cmd, st, nextMsg, nextTopic>>

\* ------------------------------------------------------------ bot/commands.py
\* /init up to its session: the unlocked load_state decides whether a board
\* exists for the channel; if none does, three messages are sent and the new
\* entry is built.  Only callers with manage_guild pass the permission check.
StartInit(t, g, c, u) ==
  /\ pc[t] = "idle"
  /\ u \in Managers
  /\ IF IsSome(from_raw(boards[<<g, c>>]))
     THEN /\ pc' = [pc EXCEPT ![t] = "done"]
          /\ cmd' = [cmd EXCEPT ![t] = [NoCmd EXCEPT !.kind = "init", !.guild = g,
                                           !.channel = c, !.user = u]]
          /\ hist' = [hist EXCEPT ![t].result = "already_exists"]
          /\ nextMsg' = nextMsg
     ELSE /\ pc' = [pc EXCEPT ![t] = "acquire"]
          /\ cmd' = [cmd EXCEPT ![t] =
                       [NoCmd EXCEPT
                          !.kind = "init", !.guild = g, !.channel = c, !.user = u,
                          !.entry = Some(create_entry(c, nextMsg, NoId, nextMsg + 1,
                                                      nextMsg + 2, NoId))]]
          /\ hist' = hist
          /\ nextMsg' = nextMsg + 3
  /\ UNCHANGED <<boards, topicsDb, locks, st, nextTopic, log>>

\* /init, the unit of work: the new entry replaces whatever was loaded.
InitUow(t) ==
  /\ pc[t] = "uow"
  /\ cmd[t].kind = "init"
  /\ EndUow(t, [st[t] EXCEPT !.entry = cmd[t].entry, !.registry_dirty = TRUE,
                             !.topics = <<>>, !.topics_dirty = TRUE],
            "installed", "none")
  /\ UNCHANGED <<boards, topicsDb, cmd, nextMsg, nextTopic>>

\* /addtopic and /removetopic reach `async with locked_state`.
StartAddTopic(t, g, c, u, emoji) ==
  /\ pc[t] = "idle"
  /\ cmd' = [cmd EXCEPT ![t] = [NoCmd EXCEPT !.kind = "addtopic", !.guild = g,
                                   !.channel = c, !.user = u, !.emoji = emoji]]
  /\ Request(t, g)
  /\ UNCHANGED <<boards, topicsDb, st, nextMsg, nextTopic>>

StartRemoveTopic(t, g, c, u, topic) ==
  /\ pc[t] = "idle"
  /\ cmd' = [cmd EXCEPT ![t] = [NoCmd EXCEPT !.kind = "removetopic", !.guild = g,
                                   !.channel = c, !.user = u, !.topic = topic]]
  /\ Request(t, g)
  /\ UNCHANGED <<boards, topicsDb, st, nextMsg, nextTopic>>

\* Topics.addtopic deleting the old notification without clearing its id.
notification_id_kept(state) == state

\* Topics.addtopic, the state after the notification id is cleared.
ClearNotification(state) ==
  IF Get(state.entry).notification_message_id # NoId
  THEN [state EXCEPT !.entry = Some([Get(@) EXCEPT !.notification_message_id = NoId]),
                     !.registry_dirty = TRUE]
  ELSE state

\* What the chat client answers when the stored notification message is
\* fetched and deleted.
ChatErrors == {"NotFound", "Forbidden", "HTTPException"}

\* _delete_notification_message catching discord.NotFound only.
delete_notification_not_found_only(message_id, outcome) ==
  IF message_id = NoId THEN "none"
  ELSE IF outcome = "deleted" THEN "deleted"
  ELSE IF outcome = "NotFound" THEN "caught"
  ELSE "raised"

\* _delete_notification_message: how the helper ended: "none" without a stored
\* id, "deleted", "caught" when a chat call raised one of the three exceptions
\* the helper and _fetch_message catch, "raised" for an exception that leaves
\* the helper.
_delete_notification_message(message_id, outcome) ==
  IF message_id = NoId THEN "none"
  ELSE IF outcome = "deleted" THEN "deleted"
  ELSE IF outcome \in ChatErrors THEN "caught"
  ELSE "raised"

\* Topics.addtopic, the unit of work up to the choice of the slot: the guards,
\* the old notification, and the add when a slot has room.  With every slot
\* full the task awaits channel.send.  `outcome` is what the chat client
\* answers when the old notification is fetched and deleted.
AddTopicUow(t, accessible, outcome) ==
  /\ pc[t] = "uow"
  /\ cmd[t].kind = "addtopic"
  /\ IF ~IsSome(st[t].entry)
     THEN EndUow(t, st[t], "not_initialized", "none") /\ UNCHANGED <<cmd, nextTopic>>
     ELSE IF has_emoji(st[t], cmd[t].emoji)
     THEN EndUow(t, st[t], "duplicate", "none") /\ UNCHANGED <<cmd, nextTopic>>
     ELSE IF ~accessible
     THEN EndUow(t, st[t], "channel_inaccessible", "none")
          /\ UNCHANGED <<cmd, nextTopic>>
     ELSE LET cleanup == _delete_notification_message(
                           Get(st[t].entry).notification_message_id, outcome)
              cleared == ClearNotification(st[t])
              slot == find_first_available_message(Get(cleared.entry))
          IN /\ cmd' = [cmd EXCEPT
                          ![t].cleanup = cleanup,
                          ![t].deleted =
                             IF cleanup = "deleted"
                             THEN {Get(st[t].entry).notification_message_id} ELSE {}]
             /\ IF cleanup = "raised"
                THEN EndUow(t, st[t], "none", "uow") /\ nextTopic' = nextTopic
                ELSE IF slot # 0
                THEN /\ EndUow(t, add_topic_to_state(
                                    cleared, nextTopic, cmd[t].emoji, "topic",
                                    cmd[t].user, cmd[t].user,
                                    Get(cleared.entry).messages[slot].message_id),
                               "added", "none")
                     /\ nextTopic' = nextTopic + 1
                ELSE /\ st' = [st EXCEPT ![t] = cleared]
                     /\ pc' = [pc EXCEPT ![t] = "uow_send"]
                     /\ UNCHANGED <<locks, hist, log, nextTopic>>
  /\ UNCHANGED <<boards, topicsDb, nextMsg>>

\* Topics.addtopic, channel.send returned the new board message: it is
\* registered and takes the topic.
AddTopicNewSlot(t) ==
  /\ pc[t] = "uow_send"
  /\ LET entry == register_message(Get(st[t].entry), nextMsg)
         state == [st[t] EXCEPT !.entry = Some(entry)]
     IN EndUow(t, add_topic_to_state(state, nextTopic, cmd[t].emoji, "topic",
                                     cmd[t].user, cmd[t].user, nextMsg),
               "added", "none")
  /\ nextMsg' = nextMsg + 1
  /\ nextTopic' = nextTopic + 1
  /\ UNCHANGED <<boards, topicsDb, cmd>>

\* Topics.removetopic without the test of the caller.
remove_topic_unchecked(t) ==
  /\ pc[t] = "uow"
  /\ cmd[t].kind = "removetopic"
  /\ LET selected == FindTopic(st[t].topics, cmd[t].topic)
     IN IF ~IsSome(st[t].entry)
        THEN EndUow(t, st[t], "not_initialized", "none")
        ELSE IF ~IsSome(selected)
        THEN EndUow(t, st[t], "not_found", "none")
        ELSE EndUow(t, remove_topic_from_state(st[t], cmd[t].topic), "removed", "none")
  /\ UNCHANGED <<boards, topicsDb, cmd, nextMsg, nextTopic>>

\* Topics.removetopic, the unit of work.
RemoveTopicUow(t) ==
  /\ pc[t] = "uow"
  /\ cmd[t].kind = "removetopic"
  /\ LET selected == FindTopic(st[t].topics, cmd[t].topic)
     IN IF ~IsSome(st[t].entry)
        THEN EndUow(t, st[t], "not_initialized", "none")
        ELSE IF ~IsSome(selected)
        THEN EndUow(t, st[t], "not_found", "none")
        ELSE IF cmd[t].user \notin Managers /\ Get(selected).author_id # cmd[t].user
        THEN EndUow(t, st[t], "not_allowed", "none")
        ELSE EndUow(t, remove_topic_from_state(st[t], cmd[t].topic), "removed", "none")
  /\ UNCHANGED <<boards, topicsDb, cmd, nextMsg, nextTopic>>

\* The unit of work ends with an exception: a chat call raises (channel.send
\* for the new board message, followup.send of a rejection; discord.HTTPException
\* is not caught there), or the task is cancelled at such an await.  The finally
\* clause of locked_state still calls save_state.
UowAborts(t) ==
  /\ pc[t] = "uow_send" \/ (pc[t] = "uow" /\ cmd[t].kind # "init")
  /\ log.faults < MaxFaults
  /\ EndUow(t, st[t], "none", "uow")
  /\ UNCHANGED <<boards, topicsDb, cmd, nextMsg, nextTopic>>

\* The task is cancelled while it waits for the lock: it leaves the queue.
CancelWaiting(t) ==
  /\ pc[t] = "waiting"
  /\ log.faults < MaxFaults
  /\ LET g == cmd[t].guild
     IN locks' = [locks EXCEPT
                    ![g] = Some([Get(@) EXCEPT
                                   !.waiters = SelectSeq(@, LAMBDA w : w # t)])]
  /\ pc' = [pc EXCEPT ![t] = "done"]
  /\ hist' = [hist EXCEPT ![t].error = "waiting"]
  /\ log' = [log EXCEPT !.faults = @ + 1]
  /\ UNCHANGED <<boards, topicsDb, cmd, st, nextMsg, nextTopic>>

\* --------------------------------------------------------------------- Next
\* A command arrives.  Tasks are interchangeable, so they are started in the
\* order of their numbers.  The commands of a run: /init in a second channel
\* and in a second guild, /addtopic of an emoji the board of <<1, 1>> does not
\* hold yet, /addtopic in the second channel of the emoji the first topic of
\* <<1, 1>> has, /removetopic of that first topic by its author (a manager) and
\* by another user.
InOrder(t) == \A other \in DOMAIN pc : other < t => pc[other] # "idle"

\* The emojis an /addtopic of a run may name.  The emojis the board does not
\* hold are interchangeable, so a command names the lowest of them or one an
\* earlier command named, or the next one.
NewEmojis ==
  {emoji \in Emojis \ {1} :
     \A lower \in Emojis \ {1} :
       lower < emoji => \E other \in DOMAIN cmd : cmd[other].emoji = lower}

Start(t) ==
  /\ InOrder(t)
  /\ \/ \E k \in {<<1, 2>>, <<2, 1>>} : StartInit(t, k[1], k[2], 1)
     \/ \E emoji \in NewEmojis : StartAddTopic(t, 1, 1, 2, emoji)
     \/ StartAddTopic(t, 1, 2, 2, 1)
     \/ \E u \in Users : StartRemoveTopic(t, 1, 1, u, 1)

Session(t) ==
  \/ Acquire(t)
  \/ WakeUp(t)
  \/ LoadBoard(t)
  \/ LoadTopics(t)
  \/ InitUow(t)
  \/ \E accessible \in BOOLEAN : AddTopicUow(t, accessible, "deleted")
  \/ AddTopicNewSlot(t)
  \/ RemoveTopicUow(t)
  \/ SaveBoard(t)
  \/ SaveTopicsDelete(t)
  \/ SaveTopicsInsert(t)

Fault(t) ==
  \/ CancelWaiting(t)
  \/ LoadAborts(t)
  \/ UowAborts(t)
  \/ SaveAborts(t)

Next == \E t \in Tasks : Start(t) \/ Session(t) \/ Fault(t)

Spec == Init /\ [][Next]_vars

\* ------------------------------------------------------- one board, a queue
\* Runs in which every command is an /addtopic of emoji 2 or a /removetopic of
\* the first topic on the board of <<1, 1>>, so that the sessions queue for one
\* lock.
StartQueue(t) ==
  /\ InOrder(t)
  /\ \/ StartAddTopic(t, 1, 1, 2, 2)
     \/ StartRemoveTopic(t, 1, 1, 1, 1)

SessionQueue(t) ==
  \/ WakeUp(t)
  \/ LoadBoard(t)
  \/ LoadTopics(t)
  \/ \E accessible \in BOOLEAN : AddTopicUow(t, accessible, "deleted")
  \/ AddTopicNewSlot(t)
  \/ RemoveTopicUow(t)
  \/ SaveBoard(t)
  \/ SaveTopicsDelete(t)
  \/ SaveTopicsInsert(t)

\* One more task is in flight, so that two tasks can wait behind a session;
\* a waiting task may be cancelled, the sessions themselves run without faults.
QueueTasks == 1..(NumTasks + 1)

InitQueue == InitOf(QueueTasks)

NextQueue ==
  \E t \in QueueTasks : StartQueue(t) \/ SessionQueue(t) \/ CancelWaiting(t)

SpecQueue == InitQueue /\ [][NextQueue]_vars

\* The queue with every fault, under the scheduling of the event loop: a task
\* that can take a step of its session is run.
NextFair == \E t \in Tasks : StartQueue(t) \/ SessionQueue(t) \/ Fault(t)

SpecFair ==
  /\ Init
  /\ [][NextFair]_vars
  /\ WF_vars(\E t \in Tasks : SessionQueue(t))


\* ------------------------------------------- the operations, one at a time
\* The functions of bot/services/topics.py applied by one caller to a state it
\* holds: a board of up to three slots (ids 1, 2, 3 in the order they were
\* registered) with any stored counts and either value of the dirty marker, or
\* no board, and up to MaxTopics topics, each with no slot id, the id of a slot
\* 1..3 (an id the board may not have) as its message_id.
Callers == {1}

CountValues == {0, 3, MAX_TOPICS_PER_MESSAGE}

SlotLists ==
  UNION {{[i \in 1..n |-> MessageEntry(i, f[i])] : f \in [1..n -> CountValues]} :
           n \in 0..3}

Entries ==
  {None} \cup
  {Some([channel_id |-> 1, welcome_message_id |-> 1, board_header_message_id |-> NoId,
         contributors_message_id |-> 2, notification_message_id |-> NoId,
         messages |-> m, registry_dirty |-> d]) : m \in SlotLists, d \in BOOLEAN}

TopicLists ==
  UNION {{[i \in 1..n |-> Topic(i, i, "topic", 1, 1, f[i])] : f \in [1..n -> 0..3]} :
           n \in 0..MaxTopics}

InitPure ==
  /\ boards = [k \in Keys |-> None]
  /\ topicsDb = [k \in Keys |-> <<>>]
  /\ locks = [g \in Guilds |-> None]
  /\ pc = [t \in Callers |-> "input"]
  /\ cmd = [t \in Callers |-> [NoCmd EXCEPT !.guild = 1, !.channel = 1]]
  /\ st \in [Callers -> {GuildTopicState(1, 1, e, ts, FALSE, FALSE) :
                           e \in Entries, ts \in TopicLists}]
  /\ nextMsg = 4
  /\ nextTopic = MaxTopics + 1
  /\ hist = [t \in Callers |-> NoHist]
  /\ log = [tickets |-> [g \in Guilds |-> 0],
            left |-> [g \in Guilds |-> StoreOf(g)],
            torn |-> [k \in Keys |-> FALSE],
            faults |-> 0,
            shown |-> <<>>]

\* load_state, lines 46-54: the state built from normalize_entry_and_topics.
Normalize(t) ==
  /\ pc[t] = "input"
  /\ pc' = [pc EXCEPT ![t] = "normalized"]
  /\ hist' = [hist EXCEPT ![t].loaded = st[t]]
  /\ st' = [st EXCEPT ![t] = Loaded(t, st[t].entry, st[t].topics)]
  /\ UNCHANGED <<boards, topicsDb, locks, cmd, nextMsg, nextTopic, log>>

\* normalize_entry_and_topics applied to its own output, the dirty marker of
\* the entry cleared as save_state clears it.
Renormalize(t) ==
  /\ pc[t] = "normalized"
  /\ pc' = [pc EXCEPT ![t] = "renormalized"]
  /\ LET entry == IF IsSome(st[t].entry)
                  THEN Some([Get(st[t].entry) EXCEPT !.registry_dirty = FALSE])
                  ELSE None
     IN /\ hist' = [hist EXCEPT ![t].loaded = [st[t] EXCEPT !.entry = entry]]
        /\ st' = [st EXCEPT ![t] = Loaded(t, entry, st[t].topics)]
  /\ UNCHANGED <<boards, topicsDb, locks, cmd, nextMsg, nextTopic, log>>

\* find_first_available_message(entry): the call and what it returned.
FindSlot(t) ==
  /\ pc[t] = "input"
  /\ IsSome(st[t].entry)
  /\ pc' = [pc EXCEPT ![t] = "found"]
  /\ hist' = [hist EXCEPT ![t].loaded = st[t]]
  /\ cmd' = [cmd EXCEPT ![t] =
               [kind |-> "find_first_available_message", guild |-> 1, channel |-> 1,
                returned |-> find_first_available_message(Get(st[t].entry))]]
  /\ UNCHANGED <<boards, topicsDb, locks, st, nextMsg, nextTopic, log>>

\* remove_topic_from_state(state, topic_id): the call and what it returned.
RemoveTopic(t, topic_id) ==
  /\ pc[t] = "input"
  /\ pc' = [pc EXCEPT ![t] = "removed"]
  /\ hist' = [hist EXCEPT ![t].loaded = st[t]]
  /\ cmd' = [cmd EXCEPT ![t] =
               [kind |-> "remove_topic_from_state", guild |-> 1, channel |-> 1,
                topic |-> topic_id, returned |-> FindTopic(st[t].topics, topic_id)]]
  /\ st' = [st EXCEPT ![t] = remove_topic_from_state(st[t], topic_id)]
  /\ UNCHANGED <<boards, topicsDb, locks, nextMsg, nextTopic, log>>

\* add_topic_to_state(state, emoji, text, author_id, author_name, message_id):
\* the call, with an emoji no topic of the state has.
AddTopic(t, message_id) ==
  /\ pc[t] = "input"
  /\ pc' = [pc EXCEPT ![t] = "added"]
  /\ hist' = [hist EXCEPT ![t].loaded = st[t]]
  /\ cmd' = [cmd EXCEPT ![t] =
               [kind |-> "add_topic_to_state", guild |-> 1, channel |-> 1,
                emoji |-> nextTopic, message_id |-> message_id]]
  /\ st' = [st EXCEPT ![t] = add_topic_to_state(st[t], nextTopic, nextTopic, "topic",
                                                2, 2, message_id)]
  /\ nextTopic' = nextTopic + 1
  /\ UNCHANGED <<boards, topicsDb, locks, nextMsg, log>>

\* build_topics_payload(state.topics, target_message_id): the call and what
\* it returned.
Render(t, target_message_id) ==
  /\ pc[t] = "input"
  /\ pc' = [pc EXCEPT ![t] = "rendered"]
  /\ hist' = [hist EXCEPT ![t].loaded = st[t]]
  /\ cmd' = [cmd EXCEPT ![t] =
               [kind |-> "build_topics_payload", guild |-> 1, channel |-> 1,
                target |-> target_message_id,
                returned |-> build_topics_payload(st[t].topics, target_message_id)]]
  /\ UNCHANGED <<boards, topicsDb, locks, st, nextMsg, nextTopic, log>>

\* Board documents written before the slot list and the contributors field
\* existed: the single board message under message_id, the contributors
\* message under userlist_message_id, or both.
LegacyBoards ==
  LET modern == ToDict(create_entry(1, 1, NoId, 2, 3, NoId))
  IN {[modern EXCEPT !.messages = <<>>, !.message_id = 3],
      [modern EXCEPT !.contributors_message_id = NoId, !.userlist_message_id = 2],
      [modern EXCEPT !.messages = <<>>, !.message_id = 3,
                     !.contributors_message_id = NoId, !.userlist_message_id = 2]}

\* load_state on a stored legacy board document and the topics of the input:
\* GuildEntry.from_raw, then normalize_entry_and_topics.
LoadRaw(t, raw) ==
  /\ pc[t] = "input"
  /\ pc' = [pc EXCEPT ![t] = "loaded_raw"]
  /\ hist' = [hist EXCEPT ![t].loaded = st[t]]
  /\ st' = [st EXCEPT ![t] = Loaded(t, from_raw(Some(raw)), st[t].topics)]
  /\ cmd' = [cmd EXCEPT ![t] =
               [kind |-> "load_state", guild |-> 1, channel |-> 1, raw |-> raw]]
  /\ UNCHANGED <<boards, topicsDb, locks, nextMsg, nextTopic, log>>

\* render_topics_message keeping every reaction the message has.
reactions_to_remove_none(used_emojis, existing_emojis) == {}

\* render_topics_message, the second loop: the existing reactions whose emoji
\* is not among the rendered ones are cleared.
reactions_to_remove(used_emojis, existing_emojis) ==
  {emoji \in existing_emojis : emoji \notin used_emojis}

\* render_topics_message, the first loop: `used_emojis - existing_emojis`.
reactions_to_add(used_emojis, existing_emojis) == used_emojis \ existing_emojis

\* The reactions some message may carry when it is fetched: emojis of topics
\* and one emoji no topic has.
ReactionSets == SUBSET {1, 2, MaxTopics + 2}

\* render_topics_message for the slot message just rendered, with every chat
\* call succeeding: the reactions of the fetched message are reconciled with
\* the emojis of the payload.
Reconcile(t, existing_emojis) ==
  /\ pc[t] = "rendered"
  /\ IsSome(cmd[t].target)
  /\ pc' = [pc EXCEPT ![t] = "reconciled"]
  /\ LET emojis == cmd[t].returned.emojis
         used_emojis == {emojis[i] : i \in 1..Len(emojis)}
         added == reactions_to_add(used_emojis, existing_emojis)
         removed == reactions_to_remove(used_emojis, existing_emojis)
     IN cmd' = [cmd EXCEPT ![t] =
                  [kind |-> "render_topics_message", guild |-> 1, channel |-> 1,
                   target |-> cmd[t].target, existing |-> existing_emojis,
                   added |-> added, removed |-> removed,
                   reactions |-> (existing_emojis \cup added) \ removed]]
  /\ UNCHANGED <<boards, topicsDb, locks, st, nextMsg, nextTopic, hist, log>>

\* filtered[:25] in topic_autocomplete.
AUTOCOMPLETE_LIMIT == 25

\* The first n elements of a sequence (seq[:n]).
Take(seq, n) == SubSeq(seq, 1, IF Len(seq) < n THEN Len(seq) ELSE n)

\* topic_autocomplete showing every caller all topics.
autocomplete_unfiltered(state, user, current) ==
  IF ~IsSome(state.entry) THEN <<>>
  ELSE LET filtered == SelectSeq(state.topics,
                         LAMBDA topic : ~IsSome(current) \/ topic.emoji = Get(current))
           shown == Take(filtered, AUTOCOMPLETE_LIMIT)
       IN [i \in 1..Len(shown) |->
             [name |-> <<shown[i].emoji, shown[i].text>>, value |-> shown[i].id]]

\* topic_autocomplete on the loaded state: the choices returned to `user`.
\* `current` is the text typed so far: None for the empty string, which every
\* display name contains, Some(e) for the emoji e, which the display names of
\* the topics with that emoji contain.
topic_autocomplete(state, user, current) ==
  IF ~IsSome(state.entry) THEN <<>>
  ELSE LET topics == IF user \in Managers THEN state.topics
                     ELSE SelectSeq(state.topics, LAMBDA topic : topic.author_id = user)
           filtered == SelectSeq(topics,
                         LAMBDA topic : ~IsSome(current) \/ topic.emoji = Get(current))
           shown == Take(filtered, AUTOCOMPLETE_LIMIT)
       IN [i \in 1..Len(shown) |->
             [name |-> <<shown[i].emoji, shown[i].text>>, value |-> shown[i].id]]

\* n more topics of user 2 on the first slot, with ids and emojis from 101 on.
Padding(n) == [i \in 1..n |-> Topic(100 + i, 100 + i, "topic", 2, 2, 1)]

\* topic_autocomplete called by `user` for a guild whose loaded topics are
\* those of the input followed by n topics of user 2.
Autocomplete(t, user, current, n) ==
  /\ pc[t] = "input"
  /\ pc' = [pc EXCEPT ![t] = "completed"]
  /\ \E state \in {[st[t] EXCEPT !.topics = @ \o Padding(n)]} :
       /\ st' = [st EXCEPT ![t] = state]
       /\ hist' = [hist EXCEPT ![t].loaded = state]
       /\ cmd' = [cmd EXCEPT ![t] =
                    [kind |-> "topic_autocomplete", guild |-> 1, channel |-> 1,
                     user |-> user, current |-> current,
                     returned |-> topic_autocomplete(state, user, current)]]
  /\ UNCHANGED <<boards, topicsDb, locks, nextMsg, nextTopic, log>>

NextPure ==
  \E t \in Callers :
    \/ Normalize(t)
    \/ Renormalize(t)
    \/ FindSlot(t)
    \/ \E target \in {None} \cup {Some(m) : m \in 1..3} : Render(t, target)
    \/ \E existing_emojis \in ReactionSets : Reconcile(t, existing_emojis)
    \/ \E raw \in LegacyBoards : LoadRaw(t, raw)
    \/ \E user \in Users, current \in {None, Some(1)}, n \in {0, AUTOCOMPLETE_LIMIT + 1} :
         Autocomplete(t, user, current, n)
    \/ \E message_id \in 1..3 : AddTopic(t, message_id)
    \/ \E topic_id \in 1..(MaxTopics + 1) : RemoveTopic(t, topic_id)

SpecPure == InitPure /\ [][NextPure]_vars


\* ------------------------------------------- one command after the other
\* A board fresh from /init (one empty slot, no topics) and one user who
\* issues /addtopic and /removetopic commands one after the other, each after
\* the previous one has returned: every /addtopic has an emoji no earlier one
\* had, a /removetopic names any topic added so far.
FreshBoard == Prefilled(0, 1)

InitFresh ==
  /\ InitWith(FreshBoard)
  /\ locks = [g \in Guilds |-> None]
  /\ pc = [t \in Callers |-> "idle"]
  /\ cmd = [t \in Callers |-> NoCmd]
  /\ st = [t \in Callers |-> NoState]
  /\ hist = [t \in Callers |-> NoHist]
  /\ log = [tickets |-> [g \in Guilds |-> 0],
            left |-> [g \in Guilds |-> StoreOf(g)],
            torn |-> [k \in Keys |-> FALSE],
            faults |-> 0,
            shown |-> <<>>]

\* Number of /removetopic commands that removed a topic so far (while no
\* session is open).
Removals == (nextTopic - 1) - Len(topicsDb[<<1, 1>>])

StartOne(t) ==
  /\ log.tickets[1] < MaxCommands
  /\ \/ StartAddTopic(t, 1, 1, 1, nextTopic)
     \/ /\ Removals < MaxRemovals
        /\ \E topic \in 1..(nextTopic - 1) : StartRemoveTopic(t, 1, 1, 1, topic)

\* The handler has returned; the task is free for the next command.
Returned(t) ==
  /\ pc[t] = "done"
  /\ pc' = [pc EXCEPT ![t] = "idle"]
  /\ cmd' = [cmd EXCEPT ![t] = NoCmd]
  /\ st' = [st EXCEPT ![t] = NoState]
  /\ hist' = [hist EXCEPT ![t] = NoHist]
  /\ UNCHANGED <<boards, topicsDb, locks, nextMsg, nextTopic, log>>

SessionOne(t) ==
  \/ LoadBoard(t)
  \/ LoadTopics(t)
  \/ \E accessible \in BOOLEAN : AddTopicUow(t, accessible, "deleted")
  \/ AddTopicNewSlot(t)
  \/ RemoveTopicUow(t)
  \/ SaveBoard(t)
  \/ SaveTopicsDelete(t)
  \/ SaveTopicsInsert(t)

NextOne == \E t \in Callers : StartOne(t) \/ SessionOne(t) \/ Returned(t)

SpecOne == InitFresh /\ [][NextOne]_vars


\* -------------------------------------- /removeboards and on_message
\* Topics.removeboards reaches `async with locked_state` after its permission
\* and channel checks (only callers with manage_guild pass).
StartRemoveBoards(t, g, c, u) ==
  /\ pc[t] = "idle"
  /\ u \in Managers
  /\ cmd' = [cmd EXCEPT ![t] = [NoCmd EXCEPT !.kind = "removeboards", !.guild = g,
                                   !.channel = c, !.user = u]]
  /\ Request(t, g)
  /\ UNCHANGED <<boards, topicsDb, st, nextMsg, nextTopic>>

\* Topics.removeboards, the unit of work: the rejections, then the ids of the
\* board's messages are read and the messages deleted in the chat, then
\* storage.delete_topics_file is called.  bot/storage.py defines no such
\* function, so the unit of work raises AttributeError before
\* `state.entry = None`: the state is as loaded when the finally clause of
\* locked_state calls save_state.
RemoveBoardsUow(t, accessible) ==
  /\ pc[t] = "uow"
  /\ cmd[t].kind = "removeboards"
  /\ IF ~IsSome(st[t].entry)
     THEN EndUow(t, st[t], "not_initialized", "none")
     ELSE IF Get(st[t].entry).channel_id # cmd[t].channel
     THEN EndUow(t, st[t], "wrong_channel", "none")
     ELSE IF ~accessible
     THEN EndUow(t, st[t], "channel_inaccessible", "none")
     ELSE EndUow(t, st[t], "none", "AttributeError")
  /\ UNCHANGED <<boards, topicsDb, cmd, nextMsg, nextTopic>>

\* TopicBot.on_message for a message of a user in a text channel: load_state
\* and, if normalization changed anything, save_state, both without the lock.
OnMessage(t, g, c) ==
  /\ pc[t] = "idle"
  /\ cmd' = [cmd EXCEPT ![t] = [NoCmd EXCEPT !.kind = "message", !.guild = g,
                                   !.channel = c]]
  /\ pc' = [pc EXCEPT ![t] = "msg_load_board"]
  /\ UNCHANGED <<boards, topicsDb, locks, st, nextMsg, nextTopic, hist, log>>

\* Where on_message continues with the state load_state returned, or
\* save_state after a write: the next dirty part, or the end of the hook.
MsgContinues(state) ==
  IF state.registry_dirty THEN "msg_save_board"
  ELSE IF state.topics_dirty THEN "msg_save_topics_delete"
  ELSE "done"

\* load_state in on_message, first await (storage.fetch_board).
MsgLoadBoard(t) ==
  /\ pc[t] = "msg_load_board"
  /\ LET entry == from_raw(boards[KeyOf(t)])
     IN IF IsSome(entry)
        THEN /\ st' = [st EXCEPT ![t] = [NoState EXCEPT !.entry = entry]]
             /\ pc' = [pc EXCEPT ![t] = "msg_load_topics"]
             /\ hist' = hist
        ELSE /\ st' = [st EXCEPT ![t] = Loaded(t, entry, <<>>)]
             /\ pc' = [pc EXCEPT ![t] = MsgContinues(Loaded(t, entry, <<>>))]
             /\ hist' = [hist EXCEPT ![t].loaded = Loaded(t, entry, <<>>)]
  /\ UNCHANGED <<boards, topicsDb, locks, cmd, nextMsg, nextTopic, log>>

\* load_state in on_message, second await (storage.load_topics), then
\* normalization and the test of the dirty flags.
MsgLoadTopics(t) ==
  /\ pc[t] = "msg_load_topics"
  /\ LET raw == topicsDb[KeyOf(t)]
         topics == [i \in 1..Len(raw) |-> TopicFromDict(raw[i])]
     IN \E state \in {Loaded(t, st[t].entry, topics)} :
          /\ st' = [st EXCEPT ![t] = state]
          /\ hist' = [hist EXCEPT ![t].loaded = state]
          /\ pc' = [pc EXCEPT ![t] = MsgContinues(state)]
  /\ UNCHANGED <<boards, topicsDb, locks, cmd, nextMsg, nextTopic, log>>

\* save_state in on_message: storage.upsert_board / storage.delete_board.
MsgSaveBoard(t) ==
  /\ pc[t] = "msg_save_board"
  /\ boards' = [boards EXCEPT ![KeyOf(t)] =
                  IF IsSome(st[t].entry)
                  THEN Some(ToDict(Get(st[t].entry))) ELSE None]
  /\ \E state \in {[st[t] EXCEPT
                      !.registry_dirty = FALSE,
                      !.entry = IF IsSome(@)
                                THEN Some([Get(@) EXCEPT !.registry_dirty = FALSE])
                                ELSE @]} :
       /\ st' = [st EXCEPT ![t] = state]
       /\ pc' = [pc EXCEPT ![t] = MsgContinues(state)]
  /\ hist' = [hist EXCEPT ![t].board_writes = @ + 1]
  /\ UNCHANGED <<topicsDb, locks, cmd, nextMsg, nextTopic, log>>

\* save_state in on_message: storage.save_topics, delete_many.
MsgSaveTopicsDelete(t) ==
  /\ pc[t] = "msg_save_topics_delete"
  /\ topicsDb' = [topicsDb EXCEPT ![KeyOf(t)] = <<>>]
  /\ IF st[t].topics # <<>>
     THEN /\ pc' = [pc EXCEPT ![t] = "msg_save_topics_insert"]
          /\ st' = st
     ELSE /\ pc' = [pc EXCEPT ![t] = "done"]
          /\ st' = [st EXCEPT ![t].topics_dirty = FALSE]
  /\ hist' = [hist EXCEPT ![t].topics_writes = @ + 1]
  /\ UNCHANGED <<boards, locks, cmd, nextMsg, nextTopic, log>>

\* save_state in on_message: storage.save_topics, insert_many.
MsgSaveTopicsInsert(t) ==
  /\ pc[t] = "msg_save_topics_insert"
  /\ topicsDb' = [topicsDb EXCEPT ![KeyOf(t)] =
                    [i \in 1..Len(st[t].topics) |-> TopicToDict(st[t].topics[i])]]
  /\ st' = [st EXCEPT ![t].topics_dirty = FALSE]
  /\ pc' = [pc EXCEPT ![t] = "done"]
  /\ UNCHANGED <<boards, locks, cmd, nextMsg, nextTopic, hist, log>>

\* Runs on the board of <<1, 1>>, whose only slot is full: /removeboards by a
\* manager, /addtopic of a new emoji, /removetopic of the first topic, and
\* messages users post in the channel.
StartBoards(t) ==
  /\ InOrder(t)
  /\ \/ StartRemoveBoards(t, 1, 1, 1)
     \/ StartAddTopic(t, 1, 1, 2, 2)
     \/ StartRemoveTopic(t, 1, 1, 1, 1)
     \/ OnMessage(t, 1, 1)

SessionBoards(t) ==
  \/ WakeUp(t)
  \/ LoadBoard(t)
  \/ LoadTopics(t)
  \/ \E accessible \in BOOLEAN : RemoveBoardsUow(t, accessible)
  \/ \E accessible \in BOOLEAN, outcome \in {"deleted"} \cup ChatErrors :
        AddTopicUow(t, accessible, outcome)
  \/ AddTopicNewSlot(t)
  \/ RemoveTopicUow(t)
  \/ SaveBoard(t)
  \/ SaveTopicsDelete(t)
  \/ SaveTopicsInsert(t)
  \/ MsgLoadBoard(t)
  \/ MsgLoadTopics(t)
  \/ MsgSaveBoard(t)
  \/ MsgSaveTopicsDelete(t)
  \/ MsgSaveTopicsInsert(t)

NextBoards == \E t \in Tasks : StartBoards(t) \/ SessionBoards(t)

SpecBoards == Init /\ [][NextBoards]_vars

\* ------------------------------------------------ the re-render of a handler
\* Topics.addtopic and Topics.removetopic after their session: the handler
\* calls render_topics_message for the slot message of the topic it added or
\* removed, which opens a session of its own.
StartRender(t) ==
  /\ pc[t] = "done"
  /\ \/ /\ cmd[t].kind = "addtopic" /\ hist[t].result = "added"
        /\ cmd' = [cmd EXCEPT ![t].kind = "render",
                               ![t].target = st[t].topics[Len(st[t].topics)].message_id]
     \/ /\ cmd[t].kind = "removetopic" /\ hist[t].result = "removed"
        /\ cmd' = [cmd EXCEPT
                     ![t].kind = "render",
                     ![t].target =
                        Get(FindTopic(hist[t].loaded.topics, cmd[t].topic)).message_id]
  /\ Request(t, cmd[t].guild)
  /\ UNCHANGED <<boards, topicsDb, st, nextMsg, nextTopic>>

\* render_topics_message, the unit of work: the snapshot of the topics and the
\* messages to render are taken; nothing is changed.
RenderUow(t) ==
  /\ pc[t] = "uow"
  /\ cmd[t].kind = "render"
  /\ EndUow(t, st[t], IF IsSome(st[t].entry) THEN "snapshot" ELSE "not_initialized",
            "none")
  /\ UNCHANGED <<boards, topicsDb, cmd, nextMsg, nextTopic>>

\* render_topics_message after its session, every chat call succeeding: the
\* target message is fetched and edited to the payload built from the snapshot.
RenderEdit(t) ==
  /\ pc[t] = "done"
  /\ cmd[t].kind = "render"
  /\ hist[t].result = "snapshot"
  /\ pc' = [pc EXCEPT ![t] = "rendered"]
  /\ LET rendered == build_topics_payload(st[t].topics, Some(cmd[t].target))
     IN log' = [log EXCEPT !.shown =
                  [m \in DOMAIN @ \cup {cmd[t].target} |->
                     IF m = cmd[t].target THEN rendered.content ELSE @[m]]]
  /\ UNCHANGED <<boards, topicsDb, locks, cmd, st, nextMsg, nextTopic, hist>>

\* Runs on the board of <<1, 1>>: /addtopic of two new emojis by user 2 and
\* /removetopic of the first topic by its author, each followed by its
\* re-render; no fault and no failing chat call.
StartRendering(t) ==
  /\ InOrder(t)
  /\ \/ \E emoji \in Emojis \ {1} : StartAddTopic(t, 1, 1, 2, emoji)
     \/ StartRemoveTopic(t, 1, 1, 1, 1)

SessionRendering(t) ==
  \/ WakeUp(t)
  \/ LoadBoard(t)
  \/ LoadTopics(t)
  \/ \E accessible \in BOOLEAN : AddTopicUow(t, accessible, "deleted")
  \/ AddTopicNewSlot(t)
  \/ RemoveTopicUow(t)
  \/ SaveBoard(t)
  \/ SaveTopicsDelete(t)
  \/ SaveTopicsInsert(t)
  \/ StartRender(t)
  \/ RenderUow(t)
  \/ RenderEdit(t)

NextRendering == \E t \in Tasks : StartRendering(t) \/ SessionRendering(t)

InitRendering == InitShowing(Tasks, ShownFor(InitialStore))

SpecRendering == InitRendering /\ [][NextRendering]_vars

\* ------------------------------------------ the notification of /addtopic
\* Topics.addtopic after its re-render: _send_notification_message sends the
\* new notification (every chat call succeeds), and the handler opens a second
\* session to record its id.
SendNotification(t) ==
  /\ pc[t] = "rendered"
  /\ cmd[t].kind = "render"
  /\ cmd[t].emoji # NoId
  /\ cmd' = [cmd EXCEPT ![t].kind = "notify", ![t].note = nextMsg]
  /\ nextMsg' = nextMsg + 1
  /\ Request(t, cmd[t].guild)
  /\ UNCHANGED <<boards, topicsDb, st, nextTopic>>

\* Topics.addtopic, the unit of work of the second session: with another id
\* stored the message just sent is deleted, otherwise its id is recorded.
NotifyUow(t) ==
  /\ pc[t] = "uow"
  /\ cmd[t].kind = "notify"
  /\ IF ~IsSome(st[t].entry)
     THEN EndUow(t, st[t], "pass", "none") /\ cmd' = cmd
     ELSE LET existing_id == Get(st[t].entry).notification_message_id
          IN IF existing_id # NoId /\ existing_id # cmd[t].note
             THEN /\ cmd' = [cmd EXCEPT ![t].deleted = @ \cup {cmd[t].note}]
                  /\ EndUow(t, st[t], "discarded", "none")
             ELSE /\ cmd' = cmd
                  /\ EndUow(t, [st[t] EXCEPT
                                  !.entry = Some([Get(@) EXCEPT
                                              !.notification_message_id = cmd[t].note]),
                                  !.registry_dirty = TRUE],
                            "recorded", "none")
  /\ UNCHANGED <<boards, topicsDb, nextMsg, nextTopic>>

\* The notification messages the channel of <<1, 1>> holds: the one the board
\* started with and those the handlers sent, less those the handlers deleted.
ChannelNotifications ==
  (({Get(InitialStore.entry).notification_message_id}
      \cup {cmd[t].note : t \in DOMAIN cmd}) \ {NoId})
    \ UNION {cmd[t].deleted : t \in DOMAIN cmd}

\* Runs on the board of <<1, 1>>: every task issues one /addtopic with an emoji
\* of its own, followed by its re-render and its notification; no fault and no
\* failing chat call.
StartNotifying(t) ==
  /\ InOrder(t)
  /\ StartAddTopic(t, 1, 1, 2, t + 1)

SessionNotifying(t) ==
  \/ WakeUp(t)
  \/ LoadBoard(t)
  \/ LoadTopics(t)
  \/ \E accessible \in BOOLEAN : AddTopicUow(t, accessible, "deleted")
  \/ AddTopicNewSlot(t)
  \/ SaveBoard(t)
  \/ SaveTopicsDelete(t)
  \/ SaveTopicsInsert(t)
  \/ StartRender(t)
  \/ RenderUow(t)
  \/ RenderEdit(t)
  \/ SendNotification(t)
  \/ NotifyUow(t)

NextNotifying == \E t \in Tasks : StartNotifying(t) \/ SessionNotifying(t)

SpecNotifying == Init /\ [][NextNotifying]_vars

\* ------------------------------------------------------------------ claims
Saving == {"save_board", "save_topics_delete", "save_topics_insert"}

\* No session is in the middle of its flush on key k.
NotSaving(k) == \A t \in DOMAIN pc : pc[t] \in Saving => KeyOf(t) # k

RECURSIVE SumCounts(_)
SumCounts(messages) ==
  IF messages = <<>> THEN 0 ELSE Head(messages).count + SumCounts(Tail(messages))

\* The stored board and the stored topics of key k agree.
Consistent(k) ==
  LET messages == Get(boards[k]).messages
  IN /\ SumCounts(messages) = Len(topicsDb[k])
     /\ \A i \in 1..Len(messages) :
          messages[i].count = CountFor(topicsDb[k], messages[i].message_id)

\* C1: at most one session of a guild is between lock acquisition and lock
\* release (in its load, its unit of work or its flush).
C1_MutualExclusion == \A g \in Guilds : Cardinality(Holders(g)) <= 1

\* A session of guild 1 holds the lock while another one waits for it.
C1_Witness ==
  \E t \in Tasks, w \in Tasks :
    /\ t \in Holders(1)
    /\ pc[w] = "waiting" /\ cmd[w].guild = 1

StoredWith(k, emoji) ==
  Cardinality({i \in 1..Len(topicsDb[k]) : topicsDb[k][i].emoji = emoji})

\* Tasks a and b ran /addtopic on one initialized board with distinct emojis
\* the board did not hold, reached the add, and both have finished.
AddPair(a, b) ==
  /\ a # b
  /\ KeyOf(a) = KeyOf(b)
  /\ cmd[a].emoji # cmd[b].emoji
  /\ \A t \in {a, b} :
       /\ cmd[t].kind = "addtopic"
       /\ pc[t] = "done"
       /\ hist[t].uow_done
       /\ IsSome(hist[t].loaded.entry)
       /\ ~has_emoji(hist[t].loaded, cmd[t].emoji)
       /\ hist[t].result # "channel_inaccessible"

\* C3: two /addtopic commands with distinct new emojis on one initialized
\* board, in a run without faults: once both have finished (and no other
\* session is flushing that board) both were added, the stored topic list holds
\* each of the two emojis exactly once and the stored counts agree with it.
C3_NoLostUpdate ==
  \A a \in Tasks, b \in Tasks :
    AddPair(a, b) /\ log.faults = 0 /\ NotSaving(KeyOf(a))
      => /\ hist[a].result = "added" /\ hist[b].result = "added"
         /\ StoredWith(KeyOf(a), cmd[a].emoji) = 1
         /\ StoredWith(KeyOf(a), cmd[b].emoji) = 1
         /\ Consistent(KeyOf(a))

\* Both adds have finished, the second one requested the lock while the first
\* one held it, and one of them had to create a second slot.
C3_Witness ==
  \E a \in Tasks, b \in Tasks :
    /\ AddPair(a, b) /\ log.faults = 0 /\ NotSaving(KeyOf(a))
    /\ hist[b].waited
    /\ hist[a].ticket < hist[b].ticket
    /\ Len(Get(boards[KeyOf(a)]).messages) = 2

\* C4: a session runs save_state exactly once, and only after its unit of work
\* has ended, whether that returned or raised; the flush writes the board at
\* most once and only if registry_dirty was set, replaces the topics at most once
\* and only if topics_dirty was set, and a flag is clear after its write.
C4_FlushExactlyOnce ==
  \A t \in Tasks :
    /\ hist[t].flushes <= 1
    /\ ~hist[t].uow_done =>
          hist[t].flushes = 0 /\ hist[t].board_writes = 0 /\ hist[t].topics_writes = 0
    /\ pc[t] \in Saving => hist[t].uow_done
    /\ hist[t].uow_done /\ pc[t] \in Saving \cup {"done"} => hist[t].flushes = 1
    /\ hist[t].board_writes <= 1
    /\ hist[t].board_writes = 1 => hist[t].flush_registry /\ ~st[t].registry_dirty
    /\ hist[t].topics_writes <= 1
    /\ hist[t].topics_writes = 1 => hist[t].flush_topics
    /\ pc[t] = "done" /\ hist[t].uow_done /\ hist[t].error # "save" =>
          /\ ~st[t].registry_dirty /\ ~st[t].topics_dirty
          /\ hist[t].board_writes = (IF hist[t].flush_registry THEN 1 ELSE 0)
          /\ hist[t].topics_writes = (IF hist[t].flush_topics THEN 1 ELSE 0)

\* A unit of work raised and the flush that followed wrote the board.
C4_Witness ==
  \E t \in Tasks :
    /\ pc[t] = "done"
    /\ hist[t].error = "uow"
    /\ hist[t].flushes = 1
    /\ hist[t].board_writes = 1

\* What a state holds, without its dirty flags.
Data(state) ==
  [entry |-> IF IsSome(state.entry) THEN Some(ToDict(Get(state.entry))) ELSE None,
   topics |-> state.topics]

\* C5 as stated: a session whose unit of work was aborted (it raised or its task
\* was cancelled) after it had changed the in-memory state writes neither the
\* board nor the topics.
C5_NoWriteFromAbortedUow ==
  \A t \in Tasks :
    hist[t].error = "uow" /\ Data(st[t]) # Data(hist[t].loaded)
      => hist[t].board_writes = 0 /\ hist[t].topics_writes = 0

\* Task t has taken the lock of its guild at some point.
Acquired(t) == pc[t] \in InSession \/ (pc[t] = "done" /\ hist[t].error # "waiting" /\ hist[t].ticket > 0)

\* C6: the lock of a guild is locked only while a session of that guild is
\* between acquisition and release, whichever way sessions ended; and with
\* runnable tasks scheduled no task waits for the lock forever: again and again
\* every task that waited has taken the lock (or was cancelled while waiting).
C6_LockReleased ==
  /\ [](\A g \in Guilds :
          IsSome(locks[g]) /\ Get(locks[g]).locked => Holders(g) # {})
  /\ []<>(\A t \in Tasks : pc[t] # "waiting")

\* A session ended by a fault (in its load, its unit of work or its flush) and
\* a task that waited behind it holds the lock.
C6_Witness ==
  \E t \in Tasks, w \in Tasks :
    /\ pc[t] = "done"
    /\ hist[t].error \in {"load", "uow", "save"}
    /\ hist[w].waited
    /\ hist[t].ticket < hist[w].ticket
    /\ pc[w] \in InSession

\* C7 as stated: no two topics stored for one guild, on the same board or on
\* boards of different channels, have the same emoji.
C7_EmojiUniquePerGuild ==
  \A g \in Guilds : \A c \in Channels, d \in Channels :
    \A i \in 1..Len(topicsDb[<<g, c>>]), j \in 1..Len(topicsDb[<<g, d>>]) :
      topicsDb[<<g, c>>][i].emoji = topicsDb[<<g, d>>][j].emoji => c = d /\ i = j

\* The topic list holds a topic with the emoji.
Uses(topics, emoji) == \E i \in 1..Len(topics) : topics[i].emoji = emoji

\* C8: an /addtopic whose emoji is on the loaded board ends its unit of work
\* without adding: the state it holds afterwards has the board (every slot count
\* included) and the topic list it loaded, no topic id is used, and the flush
\* writes only the parts the load had marked dirty.
C8_RejectedDuplicate ==
  \A t \in Tasks :
    /\ cmd[t].kind = "addtopic"
    /\ hist[t].uow_done
    /\ IsSome(hist[t].loaded.entry)
    /\ Uses(hist[t].loaded.topics, cmd[t].emoji)
    => /\ hist[t].result # "added"
       /\ Data(st[t]) = Data(hist[t].loaded)
       /\ hist[t].flush_registry = hist[t].loaded.registry_dirty
       /\ hist[t].flush_topics = hist[t].loaded.topics_dirty
       /\ hist[t].board_writes = 1 => hist[t].loaded.registry_dirty
       /\ hist[t].topics_writes = 1 => hist[t].loaded.topics_dirty

\* An /addtopic was rejected as a duplicate of a topic another /addtopic of
\* the run had stored.
C8_Witness ==
  \E t \in Tasks :
    /\ pc[t] = "done"
    /\ hist[t].result = "duplicate"
    /\ Uses(hist[t].loaded.topics, cmd[t].emoji)
    /\ hist[t].board_writes = 0 /\ hist[t].topics_writes = 0

\* What load_state returns to task t from the stored records of its key.
LoadOf(t, stored) ==
  Loaded(t, from_raw(stored.board),
         [i \in 1..Len(stored.topics) |-> TopicFromDict(stored.topics[i])])

\* C9: a flush that did not complete ends its session with the error of the
\* failed write; the session is over and its lock released; after a failed board
\* write the topics were not written; and the state a session starts its unit
\* of work with is the one load_state builds from the store.
C9_CommitFailurePropagates ==
  \A t \in Tasks :
    /\ pc[t] = "done" /\ hist[t].uow_done /\ (st[t].registry_dirty \/ st[t].topics_dirty)
         => hist[t].error = "save"
    /\ hist[t].error = "save" =>
         /\ pc[t] = "done"
         /\ Get(locks[cmd[t].guild]).locked => Holders(cmd[t].guild) # {}
         /\ hist[t].flush_registry /\ hist[t].board_writes = 0
              => hist[t].topics_writes = 0
    /\ pc[t] = "uow" =>
         st[t] = LoadOf(t, StoreOf(cmd[t].guild)[cmd[t].channel])

\* A flush failed between the board write and the end of the topics replace, and
\* a later session of the same board has loaded its state.
C9_Witness ==
  \E f \in Tasks, t \in Tasks :
    /\ hist[f].error = "save" /\ hist[f].board_writes = 1
    /\ KeyOf(f) = KeyOf(t)
    /\ hist[f].ticket < hist[t].ticket
    /\ pc[t] = "uow"
    /\ Data(st[t]) # Data(st[f])

Busy(g) ==
  IsSome(locks[g]) /\ (Get(locks[g]).locked \/ Get(locks[g]).waiters # <<>>)

\* A step of task t of guild g that reads the store leaves t with what the
\* records keyed by g and the channel of t hold.
ReadsOwnRecords(t) ==
  LET g == cmd[t].guild
      c == cmd[t].channel
      raw == topicsDb[<<g, c>>]
  IN /\ pc[t] = "load_board" /\ pc'[t] = "load_topics"
          => st'[t].entry = from_raw(boards[<<g, c>>])
     /\ pc[t] = "load_board" /\ pc'[t] = "uow"
          => ~IsSome(boards[<<g, c>>]) /\ ~IsSome(st'[t].entry)
     /\ pc[t] = "load_topics" /\ pc'[t] = "uow"
          => st'[t] = Loaded(t, st[t].entry,
                             [i \in 1..Len(raw) |-> TopicFromDict(raw[i])])

\* C11: a task starts to wait for a lock only when the lock of its own guild
\* is taken or queued for, and a waiting task waits behind a session of its own
\* guild (or is about to be woken); a step that changes the stored board or
\* topics of a key is a flush step of a session of that key's guild, so the
\* records of every other guild are unchanged; and a session loads from the
\* records of its own guild and channel.
C11_CrossGuildIndependence ==
  /\ [](\A w \in Tasks :
          pc[w] = "waiting" =>
            \/ Holders(cmd[w].guild) # {}
            \/ ~Get(locks[cmd[w].guild]).locked
                  /\ Get(locks[cmd[w].guild]).waiters # <<>>)
  /\ [][/\ \A t \in Tasks :
            pc[t] # "waiting" /\ pc'[t] = "waiting" => Busy(cmd'[t].guild)
        /\ \A k \in Keys :
            boards'[k] # boards[k] \/ topicsDb'[k] # topicsDb[k]
              => \E t \in Tasks : /\ pc[t] \in Saving
                                  /\ pc'[t] # pc[t]
                                  /\ cmd[t].guild = k[1]
                                  /\ cmd[t].channel = k[2]
        /\ \A t \in Tasks : ReadsOwnRecords(t)]_vars

\* A session of guild 2 has written its board while a session of guild 1 held
\* the lock of guild 1, and it had taken the lock of guild 2 without waiting.
C11_Witness ==
  \E a \in Tasks, b \in Tasks :
    /\ cmd[a].guild = 1 /\ a \in Holders(1)
    /\ cmd[b].guild = 2 /\ b \in Holders(2)
    /\ hist[a].ticket > 0 /\ ~hist[b].waited
    /\ IsSome(boards[<<2, 1>>])

\* C12: normalize_entry_and_topics applied to its own output (the entry's
\* dirty marker cleared as a flush clears it) returns the same board and the
\* same topics, with registry_changed and topics_changed both false.
C12_NormalizeIdempotent ==
  \A t \in Callers :
    pc[t] = "renormalized" =>
      /\ st[t].entry = hist[t].loaded.entry
      /\ st[t].topics = hist[t].loaded.topics
      /\ ~st[t].registry_dirty
      /\ ~st[t].topics_dirty

\* The second application ran on the output of a first one that had
\* reassigned a topic and corrected a count.
C12_Witness ==
  \E t \in Callers :
    /\ pc[t] = "renormalized"
    /\ hist[t].loaded.registry_dirty /\ hist[t].loaded.topics_dirty
    /\ Len(Get(st[t].entry).messages) >= 2

\* C13: for a board with at least one slot, after normalization every topic
\* has the id of a slot of the board; a topic whose message_id was empty or the
\* id of no slot has the first slot's id and every other topic keeps its own;
\* topics_changed is true exactly when there was such a topic; every slot's
\* count is the number of topics with its id; and registry_changed is true when
\* a stored count differed from that number.
C13_NormalizeRepairs ==
  \A t \in Callers :
    pc[t] = "normalized" /\ IsSome(hist[t].loaded.entry)
      /\ Get(hist[t].loaded.entry).messages # <<>>
    => LET before == hist[t].loaded.topics
           slots == Get(hist[t].loaded.entry).messages
           after == st[t].topics
           messages == Get(st[t].entry).messages
           ids == {slots[j].message_id : j \in 1..Len(slots)}
           lost == {i \in 1..Len(before) :
                      before[i].message_id = NoId \/ before[i].message_id \notin ids}
       IN /\ Len(after) = Len(before)
          /\ Len(messages) = Len(slots)
          /\ \A i \in 1..Len(after) :
               /\ after[i].message_id \in ids
               /\ i \in lost => after[i].message_id = slots[1].message_id
               /\ i \notin lost => after[i].message_id = before[i].message_id
          /\ st[t].topics_dirty <=> lost # {}
          /\ \A j \in 1..Len(messages) :
               /\ messages[j].message_id = slots[j].message_id
               /\ messages[j].count =
                    Cardinality({i \in 1..Len(after) :
                                   after[i].message_id = messages[j].message_id})
               /\ messages[j].count # slots[j].count => st[t].registry_dirty

\* A board of two slots was normalized with a topic without slot id, a topic
\* on a slot the board does not have and a topic on the second slot; the
\* stored count of the first slot was wrong.
C13_Witness ==
  \E t \in Callers :
    /\ pc[t] = "normalized"
    /\ IsSome(st[t].entry)
    /\ Len(Get(st[t].entry).messages) = 2
    /\ \E i, j, k \in 1..Len(st[t].topics) :
         /\ hist[t].loaded.topics[i].message_id = NoId
         /\ hist[t].loaded.topics[j].message_id = 3
         /\ hist[t].loaded.topics[k].message_id = 2
    /\ Get(st[t].entry).messages[1].count = 2
    /\ Get(hist[t].loaded.entry).messages[1].count = MAX_TOPICS_PER_MESSAGE
    /\ st[t].registry_dirty /\ st[t].topics_dirty

\* C14: find_first_available_message returns the slot of smallest index whose
\* count is below MAX_TOPICS_PER_MESSAGE, returns None exactly when every
\* slot's count is at least that, and leaves the state as it was.
C14_FirstAvailableSlot ==
  \A t \in Callers :
    pc[t] = "found" =>
      LET slots == Get(hist[t].loaded.entry).messages
          r == cmd[t].returned
      IN /\ r \in 0..Len(slots)
         /\ r = 0 <=> \A j \in 1..Len(slots) : slots[j].count >= 10
         /\ r # 0 => /\ slots[r].count < 10
                     /\ \A j \in 1..(r - 1) : slots[j].count >= 10
         /\ st[t] = hist[t].loaded

\* The board [1: 10, 2: 3, 3: 0] was searched and its second slot returned.
C14_Witness ==
  \E t \in Callers :
    /\ pc[t] = "found"
    /\ Get(st[t].entry).messages =
         <<MessageEntry(1, 10), MessageEntry(2, 3), MessageEntry(3, 0)>>
    /\ cmd[t].returned = 2

\* No command is in progress.
Quiet == \A t \in DOMAIN pc : pc[t] \in {"idle", "done"}

\* The stored topic with the given id, as a set of at most one document.
StoredTopic(k, id) == {topicsDb[k][i] : i \in {j \in 1..Len(topicsDb[k]) : topicsDb[k][j].id = id}}

\* C15: on a board that started with one empty slot S1 (message 3), after n
\* successive adds with distinct emojis, n up to 10, S1 is the only slot and
\* holds n; after the 11th there is exactly one more slot S2 (message 5), with
\* count 1 and the 11th topic, S1 holds 10 and find_first_available_message
\* returns S2; and when a topic of S1 is removed after that, the add that
\* follows is assigned to S1 and S2 keeps its one topic.
C15_Pagination ==
  LET k == <<1, 1>>
      messages == Get(boards[k]).messages
      added == nextTopic - 1
  IN Quiet =>
       /\ Removals = 0 /\ added <= 10 => messages = <<MessageEntry(3, added)>>
       /\ Removals = 0 /\ added = 11 =>
            /\ messages = <<MessageEntry(3, 10), MessageEntry(5, 1)>>
            /\ \A i \in 1..11 :
                 topicsDb[k][i].message_id = (IF i <= 10 THEN 3 ELSE 5)
            /\ find_first_available_message(Get(from_raw(boards[k]))) = 2
       /\ \A t \in Callers :
            /\ pc[t] = "done" /\ cmd[t].kind = "addtopic" /\ hist[t].result = "added"
            /\ added = 12 /\ Removals = 1
            /\ \E topic \in StoredTopic(k, 11) : topic.message_id = 5
            => /\ \A topic \in StoredTopic(k, 12) : topic.message_id = 3
               /\ StoredTopic(k, 12) # {}
               /\ messages = <<MessageEntry(3, 10), MessageEntry(5, 1)>>

\* Eleven adds, the removal of a topic of the first slot and a twelfth add
\* have run, and the twelfth topic is on the first slot.
C15_Witness ==
  \E t \in Callers :
    /\ pc[t] = "done" /\ cmd[t].kind = "addtopic" /\ hist[t].result = "added"
    /\ nextTopic = 13 /\ Removals = 1
    /\ \E topic \in StoredTopic(<<1, 1>>, 11) : topic.message_id = 5
    /\ \E topic \in StoredTopic(<<1, 1>>, 12) : topic.message_id = 3
    /\ StoredTopic(<<1, 1>>, 4) = {}

\* C16: remove_topic_from_state with an id no topic of the state has returns
\* None and leaves the topics, the board with every count and both dirty flags
\* as they were.
C16_RemoveUnknownTopic ==
  \A t \in Callers :
    /\ pc[t] = "removed"
    /\ \A i \in 1..Len(hist[t].loaded.topics) : hist[t].loaded.topics[i].id # cmd[t].topic
    => /\ cmd[t].returned = None
       /\ st[t] = hist[t].loaded

\* An id unknown to a state with topics and a board was asked for.
C16_Witness ==
  \E t \in Callers :
    /\ pc[t] = "removed"
    /\ cmd[t].returned = None
    /\ Len(st[t].topics) = 2
    /\ IsSome(st[t].entry)
    /\ Get(st[t].entry).messages # <<>>

\* C17: remove_topic_from_state with the id of the i-th topic returns that
\* topic and leaves the other topics in their order; on a board with a slot of
\* the removed topic's message_id the first such slot loses one from its count
\* (a count of 0 stays 0), every other slot keeps its count, and both dirty
\* flags are set.
C17_RemoveKnownTopic ==
  \A t \in Callers :
    pc[t] = "removed" =>
      LET before == hist[t].loaded
          n == Len(before.topics)
      IN \A i \in 1..n :
           before.topics[i].id = cmd[t].topic =>
             /\ cmd[t].returned = Some(before.topics[i])
             /\ st[t].topics = SubSeq(before.topics, 1, i - 1)
                                 \o SubSeq(before.topics, i + 1, n)
             /\ st[t].topics_dirty
             /\ IsSome(before.entry) =>
                  LET slots == Get(before.entry).messages
                      own == {j \in 1..Len(slots) :
                                slots[j].message_id = before.topics[i].message_id}
                      messages == Get(st[t].entry).messages
                  IN own # {} =>
                       /\ st[t].registry_dirty
                       /\ Len(messages) = Len(slots)
                       /\ \A j \in 1..Len(slots) :
                            /\ messages[j].message_id = slots[j].message_id
                            /\ messages[j].count =
                                 IF j \in own /\ \A h \in own : j <= h
                                 THEN (IF slots[j].count = 0 THEN 0
                                       ELSE slots[j].count - 1)
                                 ELSE slots[j].count

\* The second of three topics was removed: it was on the second slot, whose
\* count went from 3 to 2, and the state was clean before.
C17_Witness ==
  \E t \in Callers :
    /\ pc[t] = "removed"
    /\ cmd[t].topic = 2
    /\ Len(hist[t].loaded.topics) = 3
    /\ hist[t].loaded.topics[2].message_id = 2
    /\ Len(st[t].topics) = 2
    /\ st[t].topics[1].id = 1 /\ st[t].topics[2].id = 3
    /\ IsSome(st[t].entry)
    /\ Len(Get(st[t].entry).messages) = 3
    /\ Get(hist[t].loaded.entry).messages[2].count = 3
    /\ Get(st[t].entry).messages[2].count = 2
    /\ st[t].registry_dirty /\ st[t].topics_dirty

\* C18: add_topic_to_state called with the id of a slot of the board appends
\* one topic at the end of the list, with an id no topic of the list had and
\* that slot id as message_id; the count of that slot grows by one and no other
\* count changes; both dirty flags are set.
C18_AddTopic ==
  \A t \in Callers :
    pc[t] = "added" /\ IsSome(hist[t].loaded.entry) =>
      LET before == hist[t].loaded
          slots == Get(before.entry).messages
          target == cmd[t].message_id
          n == Len(before.topics)
      IN (\E j \in 1..Len(slots) : slots[j].message_id = target) =>
           /\ Len(st[t].topics) = n + 1
           /\ SubSeq(st[t].topics, 1, n) = before.topics
           /\ \A i \in 1..n : before.topics[i].id # st[t].topics[n + 1].id
           /\ st[t].topics[n + 1].message_id = target
           /\ st[t].topics[n + 1].emoji = cmd[t].emoji
           /\ Len(Get(st[t].entry).messages) = Len(slots)
           /\ \A j \in 1..Len(slots) :
                /\ Get(st[t].entry).messages[j].message_id = slots[j].message_id
                /\ Get(st[t].entry).messages[j].count =
                     slots[j].count + (IF slots[j].message_id = target THEN 1 ELSE 0)
           /\ st[t].registry_dirty /\ st[t].topics_dirty

\* A topic was added to the third slot of a clean state with three topics on
\* other slots; the third slot had count 0.
C18_Witness ==
  \E t \in Callers :
    /\ pc[t] = "added"
    /\ cmd[t].message_id = 3
    /\ Len(st[t].topics) = 4
    /\ IsSome(st[t].entry)
    /\ Len(Get(st[t].entry).messages) = 3
    /\ Get(st[t].entry).messages[3].count = 1
    /\ Get(st[t].entry).messages[1].count = 3
    /\ \A i \in 1..3 : st[t].topics[i].message_id \in {1, 2}
    /\ ~hist[t].loaded.registry_dirty /\ st[t].registry_dirty

\* C19: build_topics_payload returns one emoji and one line for each topic
\* whose message_id is the slot asked for (for each topic when no slot is asked
\* for), both in the order the topics have in the list; with no such topic the
\* content is TOPICS_EMPTY_MESSAGE and there is no emoji; the topic list is as
\* it was.
C19_RenderPlan ==
  \A t \in Callers :
    pc[t] = "rendered" =>
      LET topics == hist[t].loaded.topics
          chosen == {i \in 1..Len(topics) :
                       IsSome(cmd[t].target) => topics[i].message_id = Get(cmd[t].target)}
          place(i) == Cardinality({j \in chosen : j <= i})
          out == cmd[t].returned
      IN /\ Len(out.emojis) = Cardinality(chosen)
         /\ \A i \in chosen : out.emojis[place(i)] = topics[i].emoji
         /\ IF chosen = {} THEN out.content = TOPICS_EMPTY_MESSAGE
            ELSE /\ Len(out.content) = Cardinality(chosen)
                 /\ \A i \in chosen :
                      out.content[place(i)] =
                        <<"> - ", topics[i].emoji, " - **", topics[i].text, "**">>
         /\ st[t] = hist[t].loaded

\* Slot 2 was rendered from three topics of which the first and the third
\* are on it.
C19_Witness ==
  \E t \in Callers :
    /\ pc[t] = "rendered"
    /\ cmd[t].target = Some(2)
    /\ Len(st[t].topics) = 3
    /\ st[t].topics[1].message_id = 2
    /\ st[t].topics[2].message_id = 1
    /\ st[t].topics[3].message_id = 2
    /\ cmd[t].returned.emojis = <<1, 3>>

\* C20: the flush writes the board before the topics, and the topics in two
\* writes; after a flush that stopped behind the board write (before the topics
\* replace or between its delete_many and its insert_many), the state the next
\* load_state of that key returns has in every slot the number of its topics
\* as count, with registry_dirty set when that differs from the stored board
\* and topics_dirty set when the topics differ from the stored ones; and once
\* the session of that load has flushed, the stored board and topics agree.
C20_TornFlushRepaired ==
  /\ \A f \in Tasks :
       /\ hist[f].topics_writes = 1 /\ hist[f].flush_registry => hist[f].board_writes = 1
       /\ pc[f] = "save_topics_insert" => hist[f].topics_writes = 1
  /\ \A t \in Tasks :
       LET k == KeyOf(t)
           loaded == hist[t].loaded
       IN /\ pc[t] = "uow" /\ log.torn[k] /\ IsSome(loaded.entry) =>
               /\ \A j \in 1..Len(Get(loaded.entry).messages) :
                    Get(loaded.entry).messages[j].count =
                      Cardinality({i \in 1..Len(loaded.topics) :
                                     loaded.topics[i].message_id =
                                       Get(loaded.entry).messages[j].message_id})
               /\ Some(ToDict(Get(loaded.entry))) # boards[k] => loaded.registry_dirty
               /\ [i \in 1..Len(loaded.topics) |-> TopicToDict(loaded.topics[i])]
                    # topicsDb[k] => loaded.topics_dirty
          /\ /\ pc[t] = "done" /\ hist[t].uow_done /\ hist[t].error # "save"
             /\ loaded.registry_dirty \/ loaded.topics_dirty
             /\ IsSome(boards[k]) /\ NotSaving(k) /\ ~log.torn[k]
             => /\ hist[t].board_writes = (IF loaded.registry_dirty THEN 1 ELSE 0)
                /\ loaded.topics_dirty => hist[t].topics_writes = 1
                /\ Consistent(k)

\* A flush stopped between delete_many and insert_many, behind its board
\* write; the next session of the key loaded a board whose counts it had to
\* correct, and has flushed it.
C20_Witness ==
  \E f \in Tasks, t \in Tasks :
    /\ hist[f].error = "save" /\ hist[f].board_writes = 1 /\ hist[f].topics_writes = 1
    /\ KeyOf(f) = KeyOf(t)
    /\ hist[f].ticket < hist[t].ticket
    /\ pc[t] = "done" /\ hist[t].error = "none"
    /\ hist[t].loaded.registry_dirty /\ hist[t].board_writes = 1
    /\ hist[t].loaded.topics = <<>>
    /\ Consistent(KeyOf(t))

\* C21: after a /removeboards command that passed its permission and channel
\* checks has ended, the store holds neither a board document nor a topic
\* document for its guild and channel.
C21_RemoveBoardsPurges ==
  \A t \in DOMAIN pc :
    (/\ pc[t] = "done"
     /\ cmd[t].kind = "removeboards"
     /\ hist[t].uow_done
     /\ hist[t].result = "none")
    => /\ boards[KeyOf(t)] = None
       /\ topicsDb[KeyOf(t)] = <<>>

\* The board and the topics a load of key k returns after normalization.
NormalizedStore(board, raw) ==
  LET n == normalize_entry_and_topics(
             from_raw(board), [i \in 1..Len(raw) |-> TopicFromDict(raw[i])])
  IN <<n[1], n[2]>>

\* C22: an on_message load_state/save_state pair that runs without the lock
\* never removes a committed slot or topic: once every handler has returned, a
\* load of the store yields the board and the topics the last locked session
\* left (the sessions run without faults here).
C22_UnlockedPairTolerated ==
  Quiet =>
    NormalizedStore(boards[<<1, 1>>], topicsDb[<<1, 1>>])
      = NormalizedStore(log.left[1][1].board, log.left[1][1].topics)

\* The caller of the /removetopic of task t may remove the topic it selected:
\* it is the topic's author or has manage_guild.
MayRemove(t) ==
  LET selected == FindTopic(hist[t].loaded.topics, cmd[t].topic)
  IN IsSome(selected)
     /\ (cmd[t].user \in Managers \/ Get(selected).author_id = cmd[t].user)

\* C23: a /removetopic removes the selected topic only if the caller is its
\* author or has manage_guild; the session of any other caller is rejected and
\* leaves the board, its slot counts and the topic list as loaded.
C23_RemoveAuthorized ==
  \A t \in DOMAIN pc :
    (cmd[t].kind = "removetopic" /\ hist[t].uow_done /\ hist[t].error = "none")
    => /\ hist[t].result = "removed" => MayRemove(t)
       /\ (/\ IsSome(hist[t].loaded.entry)
           /\ IsSome(FindTopic(hist[t].loaded.topics, cmd[t].topic))
           /\ ~MayRemove(t))
          => /\ hist[t].result = "not_allowed"
             /\ Data(st[t]) = Data(hist[t].loaded)
             /\ hist[t].flush_registry = hist[t].loaded.registry_dirty
             /\ hist[t].flush_topics = hist[t].loaded.topics_dirty

C23_Witness ==
  \E t \in DOMAIN pc :
    /\ pc[t] = "done"
    /\ cmd[t].kind = "removetopic"
    /\ cmd[t].user \notin Managers
    /\ hist[t].result = "not_allowed"
    /\ IsSome(FindTopic(topicsDb[KeyOf(t)], cmd[t].topic))

\* The slot ids of a list of slots, in order.
SlotSeq(messages) == [i \in 1..Len(messages) |-> messages[i].message_id]

\* Slot list b is slot list a, or a with one slot appended.
Appended(a, b) ==
  /\ Len(a) > 0
  /\ Len(b) \in {Len(a), Len(a) + 1}
  /\ SubSeq(SlotSeq(b), 1, Len(a)) = SlotSeq(a)

WithId(topics, id) == {topics[i] : i \in {j \in 1..Len(topics) : topics[j].id = id}}

\* C26: a topic's id, emoji, text, author_id and author_name never change,
\* and its message_id changes only when the normalization of a load gives an
\* orphaned topic to the first slot: every load returns the stored topics with
\* at most that change, every later step of the handler leaves the topics that
\* stay in its list as they are, and every write stores them as they are.
C26_TopicImmutable ==
  [][\A t \in DOMAIN pc :
       LET k == KeyOf(t)
           raw == topicsDb[k]
           loading == pc[t] \in {"load_topics", "msg_load_topics"}
       IN /\ (loading /\ pc'[t] # pc[t] /\ hist'[t].error = "none")
             => LET new == st'[t].topics
                    messages == Get(st'[t].entry).messages
                IN /\ Len(new) = Len(raw)
                   /\ \A i \in 1..Len(raw) :
                        LET old == TopicFromDict(raw[i])
                        IN /\ [new[i] EXCEPT !.message_id = old.message_id] = old
                           /\ TopicToDict(old) = raw[i]
                           /\ IF Orphan(old, messages)
                              THEN new[i].message_id = messages[1].message_id
                              ELSE new[i].message_id = old.message_id
          /\ (~loading /\ cmd'[t] = cmd[t])
             => \A i \in 1..Len(st'[t].topics) :
                  LET topic == st'[t].topics[i]
                  IN WithId(st[t].topics, topic.id) \subseteq {topic}
          /\ (/\ pc[t] \in {"save_topics_insert", "msg_save_topics_insert"}
              /\ pc'[t] # pc[t]
              /\ hist'[t].error = "none")
             => topicsDb'[k] = [i \in 1..Len(st[t].topics) |->
                                  TopicToDict(st[t].topics[i])]]_vars

\* A load has found a topic whose slot is not on the board it read and has
\* given it to the first slot.
C26_Witness ==
  \E t \in DOMAIN pc :
    /\ hist[t].loaded.topics_dirty
    /\ \E i \in 1..Len(hist[t].loaded.topics) :
         /\ i <= Len(topicsDb[KeyOf(t)])
         /\ topicsDb[KeyOf(t)][i].id = hist[t].loaded.topics[i].id
         /\ topicsDb[KeyOf(t)][i].message_id # hist[t].loaded.topics[i].message_id

\* The emojis of the topics of the list that are assigned to slot m.
EmojisOn(topics, m) ==
  {topics[i].emoji : i \in {j \in 1..Len(topics) : topics[j].message_id = m}}

\* C27: for a rendered slot message, the reactions added are the planned
\* emojis the message does not carry yet, the reactions removed are the
\* existing ones that are not planned, and with every chat call succeeding the
\* message then carries exactly the emojis of the snapshot's topics assigned
\* to that slot.
C27_ReactionReconciliation ==
  \A t \in DOMAIN pc :
    pc[t] = "reconciled"
    => LET planned == EmojisOn(st[t].topics, Get(cmd[t].target))
       IN /\ cmd[t].added = {e \in planned : e \notin cmd[t].existing}
          /\ cmd[t].removed = {e \in cmd[t].existing : e \notin planned}
          /\ cmd[t].reactions = planned

C27_Witness ==
  \E t \in DOMAIN pc :
    /\ pc[t] = "reconciled"
    /\ cmd[t].added # {}
    /\ cmd[t].removed # {}
    /\ cmd[t].existing \cap cmd[t].reactions # {}

C29_AbsentBoardAndMigration ==
  \A t \in DOMAIN pc :
    /\ (pc[t] = "normalized" /\ ~IsSome(hist[t].loaded.entry))
       => st[t] = [hist[t].loaded EXCEPT !.registry_dirty = FALSE,
                                         !.topics_dirty = FALSE]
    /\ (/\ pc[t] = "normalized"
        /\ IsSome(hist[t].loaded.entry)
        /\ Get(hist[t].loaded.entry).registry_dirty)
       => st[t].registry_dirty
    /\ pc[t] = "loaded_raw"
       => LET raw == cmd[t].raw
              entry == Get(st[t].entry)
          IN /\ st[t].registry_dirty
             /\ entry.registry_dirty
             /\ entry.contributors_message_id = 2
             /\ SlotSeq(entry.messages) = <<3>>
             /\ ToDict(entry).messages # <<>>
             /\ ToDict(entry).contributors_message_id # NoId

C29_Witness ==
  \E t \in DOMAIN pc :
    /\ pc[t] = "loaded_raw"
    /\ cmd[t].raw.messages = <<>>
    /\ cmd[t].raw.contributors_message_id = NoId
    /\ st[t].registry_dirty
    /\ ~st[t].topics_dirty
    /\ st[t].topics # <<>>

\* The tasks that wait for the lock of guild g.
Waiting(g) == {t \in DOMAIN pc : pc[t] = "waiting" /\ cmd[t].guild = g}

\* C30: every request for the lock of a guild gets the one lock of that guild:
\* the table has an entry for a guild exactly from the first request on (it is
\* never removed), and the entry is never replaced by a new lock: it is locked
\* exactly while a session of the guild is open and it queues exactly the
\* tasks that wait for it, each once.
C30_LockTable ==
  \A g \in Guilds :
    IF ~IsSome(locks[g])
    THEN log.tickets[g] = 0 /\ Holders(g) = {} /\ Waiting(g) = {}
    ELSE LET lock == Get(locks[g])
         IN /\ log.tickets[g] > 0
            /\ lock.locked <=> Holders(g) # {}
            /\ {lock.waiters[i] : i \in 1..Len(lock.waiters)} = Waiting(g)
            /\ Len(lock.waiters) = Cardinality(Waiting(g))

\* The lock of guild 2 is still in the table, unlocked, after the only session
\* of that guild has ended, while a session of guild 1 holds the other lock.
C30_Witness ==
  /\ IsSome(locks[1]) /\ IsSome(locks[2])
  /\ Get(locks[1]).locked
  /\ ~Get(locks[2]).locked
  /\ \E t \in Tasks : pc[t] = "done" /\ cmd[t].guild = 2 /\ hist[t].uow_done

\* C31: topic_autocomplete returns at most 25 choices, each the id of a topic
\* of the loaded topic list, and to a caller without manage_guild only topics
\* whose author_id is the caller's id.
C31_AutocompleteVisibility ==
  \A t \in DOMAIN pc :
    pc[t] = "completed"
    => LET choices == cmd[t].returned
       IN /\ Len(choices) <= 25
          /\ \A i \in 1..Len(choices) :
               \E topic \in WithId(st[t].topics, choices[i].value) :
                 cmd[t].user \notin Managers => topic.author_id = cmd[t].user

\* A caller without manage_guild gets 25 of its 26 topics while the guild
\* also has topics of another author.
C31_Witness ==
  \E t \in DOMAIN pc :
    /\ pc[t] = "completed"
    /\ cmd[t].user \notin Managers
    /\ Len(cmd[t].returned) = 25
    /\ \E i \in 1..Len(st[t].topics) : st[t].topics[i].author_id # cmd[t].user

\* Every handler has returned: no command is waiting to start its re-render
\* or to edit the message it took a snapshot for.
AllReturned ==
  \A t \in DOMAIN pc :
    \/ pc[t] \in {"idle", "rendered"}
    \/ pc[t] = "done" /\ hist[t].result \notin {"added", "removed", "snapshot"}

\* C32: once every /addtopic and /removetopic of the guild has completed with
\* no chat call failing, every slot message of the stored board shows the
\* payload built from the stored topics for that slot.
C32_RenderConverges ==
  (AllReturned /\ IsSome(boards[<<1, 1>>]))
  => \A m \in SlotIds(Get(boards[<<1, 1>>]).messages) :
       /\ m \in DOMAIN log.shown
       /\ log.shown[m]
            = build_topics_payload(
                [i \in 1..Len(topicsDb[<<1, 1>>]) |-> TopicFromDict(topicsDb[<<1, 1>>][i])],
                Some(m)).content


\* C33: /init never overwrites an existing board.  Of the /init commands issued
\* for one guild and channel at most one installs its board: no two of them
\* complete their session (unit of work and flush, without an error) with
\* their own entry installed.
C33_InitInstallsOnce ==
  \A t, u \in DOMAIN pc :
    (/\ t # u
     /\ cmd[t].kind = "init" /\ cmd[u].kind = "init"
     /\ KeyOf(t) = KeyOf(u)
     /\ pc[t] = "done" /\ pc[u] = "done"
     /\ hist[t].error = "none" /\ hist[u].error = "none")
    => ~(hist[t].result = "installed" /\ hist[u].result = "installed")


C35_SingleNotification ==
  (\A t \in DOMAIN pc :
     \/ pc[t] = "idle"
     \/ pc[t] = "done" /\ cmd[t].kind = "notify"
     \/ pc[t] = "done" /\ hist[t].result = "channel_inaccessible")
  => /\ Cardinality(ChannelNotifications) <= 1
     /\ Get(boards[<<1, 1>>]).notification_message_id
          \in {NoId} \cup ChannelNotifications

\* Every /addtopic of the run has completed; one recorded its notification,
\* another found that id stored and deleted the message it had sent.
C35_Witness ==
  /\ \A t \in DOMAIN pc : pc[t] = "done" /\ cmd[t].kind = "notify"
  /\ \E t \in DOMAIN pc : hist[t].result = "discarded"
  /\ \E t \in DOMAIN pc : hist[t].result = "recorded"
  /\ Cardinality(ChannelNotifications) = 1


\* C36: clean sessions do not write.  When the state a session loaded needed
\* no repair (both dirty flags clear after load_state) and its unit of work
\* ends with the state as loaded, the session ends in that step: save_state
\* issues no board write, no board delete and no topics replace, and the
\* stored board and topics are what they were.
C36_CleanSessionNoWrite ==
  [][\A t \in DOMAIN pc :
       (/\ pc[t] \in {"uow", "uow_send"} /\ pc'[t] \notin {"uow", "uow_send"}
        /\ ~hist[t].loaded.registry_dirty /\ ~hist[t].loaded.topics_dirty
        /\ st'[t] = hist[t].loaded)
       => /\ pc'[t] = "done"
          /\ boards' = boards /\ topicsDb' = topicsDb
          /\ hist'[t].board_writes = hist[t].board_writes
          /\ hist'[t].topics_writes = hist[t].topics_writes
          /\ ~hist'[t].flush_registry /\ ~hist'[t].flush_topics]_vars

\* A /removetopic by a user who may not remove the topic has ended its
\* session: the board and its topics were loaded without repair, the unit of
\* work changed nothing, and nothing was written.
C36_Witness ==
  \E t \in DOMAIN pc :
    /\ pc[t] = "done" /\ cmd[t].kind = "removetopic"
    /\ hist[t].result = "not_allowed" /\ hist[t].error = "none"
    /\ IsSome(st[t].entry) /\ st[t] = hist[t].loaded
    /\ ~hist[t].loaded.registry_dirty /\ ~hist[t].loaded.topics_dirty
    /\ hist[t].board_writes = 0 /\ hist[t].topics_writes = 0


\* C37: every in-session board change is persisted.  In the step in which a
\* locked_state session exits normally (no exception from the unit of work,
\* the load or the flush), the stored board is the session's in-memory board
\* (the same slot ids in the same order, the same counts, the same
\* notification id; no stored board when the session has none) and the stored
\* topics are its in-memory topics.
C37_SessionPersisted ==
  [][\A t \in DOMAIN pc :
       (/\ pc[t] \in {"uow", "uow_send"} \cup Saving
        /\ pc'[t] = "done"
        /\ hist'[t].error = "none")
       => /\ IsSome(boards'[KeyOf(t)]) = IsSome(st'[t].entry)
          /\ IsSome(st'[t].entry) =>
               /\ Get(boards'[KeyOf(t)]).messages = Get(st'[t].entry).messages
               /\ Get(boards'[KeyOf(t)]).notification_message_id
                    = Get(st'[t].entry).notification_message_id
          /\ topicsDb'[KeyOf(t)]
               = [i \in 1..Len(st'[t].topics) |-> TopicToDict(st'[t].topics[i])]]_vars

====
